---- MODULE Spec2Model ----
(***************************************************************************)
(* OpenVault: memory extraction (extractMemories), backfill                *)
(* (extractAllMessages), the event parser and the state propagators; on    *)
(* the retrieval side the POV filter, the relevance selector and the       *)
(* context formatter; the per-chat settings and the deletion of a chat's   *)
(* data.                                                                   *)
(*                                                                         *)
(* Two generations of the extraction code live in the sources: the         *)
(* modular one (extraction/extract.js, "mod") and the one of index.js      *)
(* ("base").  A cycle or a backfill run records which one it executes.     *)
(*                                                                         *)
(* JavaScript runs handlers to completion: a continuation that follows a   *)
(* settled promise without further I/O (the caller of a finished cycle)    *)
(* runs before any other event.  Such positions are "urgent" below.        *)
(***************************************************************************)
EXTENDS Integers, Sequences, FiniteSets, TLC

\* ------------------------------------------------------------- bounds
MaxChat == 4
MaxMem == 2
MaxPlanChat == 7
MaxPlanCount == 3
MaxPovMem == 2
MaxSelMem == 3
MaxProp == 6
MaxFmtMem == 3
MaxDepth == 8
MaxParse == 2
MaxNames == 2
MaxDeleteClock == 5

\* -------------------------------------------------- program constants
DefaultMessageCount == 5
DefaultRPM == 30
BaseBatchSize == 5
BaseAutoCount == 5
BaseDelayMs == 1000
MinuteMs == 60000
DefaultIntensity == 5
DefaultTrust == 5
DefaultTension == 0
LevelMax == 10
LevelMin == 0
NoMarker == -1
GivenId == 7
HourMs == 3600000
RecencyMax == 10
InvolvedBonus == 5
WitnessBonus == 3
MinWordLen == 3
RevelationBonus == 3
RelationshipChangeBonus == 2
HeaderLen == 19
EmotionLen == 25
RelationshipsLen == 38
RelLineLen == 19
MemoriesLen == 18
DashLen == 2
SecretLen == 9
FooterLen == 15
CharsPerToken == 4
OverheadLines == 5
MemoryExtraTokens == 5
HighLevel == 7
LowTrust == 3
SomeTension == 4

\* ------------------------------------------------------- JS values
\* A value that came out of JSON.parse carries its JavaScript type.
Undefined == [t |-> "undefined"]
List(s) == [t |-> "list", v |-> s]
Obj(s) == [t |-> "object", v |-> s]
Str(s) == [t |-> "str", v |-> s]
Num(n) == [t |-> "num", v |-> n]
Bool(b) == [t |-> "bool", v |-> b]

\* JavaScript truthiness (the left operand of ||)
Truthy(x) ==
    CASE x.t = "undefined" -> FALSE
      [] x.t = "num" -> x.v # 0
      [] x.t = "str" -> x.v # <<>>
      [] x.t = "bool" -> x.v
      [] OTHER -> TRUE

\* a || b
JsOr(a, b) == IF Truthy(a) THEN a ELSE b

Max(a, b) == IF a >= b THEN a ELSE b
Min(a, b) == IF a <= b THEN a ELSE b

RECURSIVE SeqMax(_)
SeqMax(s) == IF Len(s) = 1 THEN s[1] ELSE Max(s[1], SeqMax(Tail(s)))

Range(s) == {s[i] : i \in 1..Len(s)}

\* ------------------------------------------------------ text model
\* Texts are sequences of lexemes.  toLowerCase and String.includes are
\* tabulated over the lexemes the model uses.
Lower(lex) ==
    CASE lex = "Trust" -> "trust"
      [] lex = "Increased" -> "increased"
      [] lex = "Alice" -> "alice"
      [] lex = "Bob" -> "bob"
      [] lex = "Meeting" -> "meeting"
      [] OTHER -> lex

Contains(lex, kw) ==
    \/ kw = lex
    \/ kw = "meet" /\ lex \in {"meeting"}
    \/ kw = "trust" /\ lex \in {"trust", "distrust"}
    \/ kw = "increas" /\ lex \in {"increased", "increasing"}
    \/ kw = "decreas" /\ lex \in {"decreased"}
    \/ kw = "tension" /\ lex \in {"tension"}

\* word.length
WordLen(lex) ==
    CASE lex \in {"met", "the", "bob", "Bob"} -> 3
      [] lex \in {"meet", "glad"} -> 4
      [] lex \in {"alice", "Alice"} -> 5
      [] lex \in {"neutral", "meeting", "Meeting"} -> 7
      [] lex \in {"acquaintance"} -> 12

\* the length of a text: its words and the blanks between them
RECURSIVE CharLen(_)
CharLen(words) ==
    IF words = <<>> THEN 0
    ELSE IF Len(words) = 1 THEN WordLen(words[1])
    ELSE WordLen(words[1]) + 1 + CharLen(Tail(words))

\* impactLower.includes(kw), impactLower = impact.toLowerCase()
Includes(words, kw) == \E i \in 1..Len(words) : Contains(Lower(words[i]), kw)

\* ---------------------------------------------------------- parser
\* A model response text: an optional fenced block and the raw text, each
\* given by what JSON.parse makes of it ("invalid": it throws).
NoFence == [t |-> "nofence"]
Invalid == [t |-> "invalid"]

\* const jsonMatch = jsonString.match(/```(?:json)?\s*([\s\S]*?)```/)
Cleaned(jsonString) ==
    IF jsonString.fence.t # "nofence" THEN jsonString.fence ELSE jsonString.raw

\* One element of events.map(event => ({ id: generateId(), ...event, ... }))
Enrich(event, gid, messageIds, now) ==
    [id |-> IF event.id.t = "undefined" THEN gid ELSE event.id.v,
     event_type |-> event.event_type,
     summary |-> event.summary,
     message_ids |-> messageIds,
     created_at |-> now,
     characters_involved |-> JsOr(event.characters_involved, List(<<>>)),
     witnesses |-> JsOr(event.witnesses, JsOr(event.characters_involved, List(<<>>))),
     location |-> JsOr(event.location, Str(<<"unknown">>)),
     is_secret |-> JsOr(event.is_secret, Bool(FALSE)),
     emotional_impact |-> JsOr(event.emotional_impact, Obj(<<>>)),
     relationship_impact |-> JsOr(event.relationship_impact, Obj(<<>>))]

parseExtractionResultLenient(jsonString, messageIds, now) ==
    LET parsed == Cleaned(jsonString)
        events == IF parsed.t = "array" THEN parsed.v ELSE <<parsed.v>>
    IN  IF parsed.t \in {"array", "object"}
        THEN [i \in 1..Len(events) |-> Enrich(events[i], now + i, messageIds, now)]
        ELSE <<[id |-> now + 1, event_type |-> Str(<<"action">>), summary |-> Str(<<>>),
                message_ids |-> messageIds, created_at |-> now,
                characters_involved |-> List(<<>>), witnesses |-> List(<<>>),
                location |-> Str(<<"unknown">>), is_secret |-> Bool(FALSE),
                emotional_impact |-> Obj(<<>>), relationship_impact |-> Obj(<<>>)]>>

\* parseExtractionResult: the events of a response text; ids are drawn
\* from the clock (generateId), one per event.
parseExtractionResult(jsonString, messageIds, now) ==
    LET parsed == Cleaned(jsonString)
        events == IF parsed.t = "array" THEN parsed.v ELSE <<parsed.v>>
    IN  IF parsed.t \in {"array", "object"}
        THEN [i \in 1..Len(events) |-> Enrich(events[i], now + i, messageIds, now)]
        ELSE <<>>

\* ----------------------------------------------------- propagators
Put(f, k, v) == [x \in DOMAIN f \cup {k} |-> IF x = k THEN v ELSE f[x]]

\* Object.entries of a parsed value
Entries(x) == IF x.t = "object" THEN x.v ELSE <<>>

NewCharacterState(name) ==
    [name |-> name,
     current_emotion |-> Str(<<"neutral">>),
     emotion_intensity |-> DefaultIntensity,
     known_events |-> <<>>,
     last_updated |-> Undefined]

\* an emotion update that also raises the intensity
FeelStrongly(old, emotion, now) ==
    [old EXCEPT !.current_emotion = emotion, !.emotion_intensity = Min(LevelMax, @ + 1),
                !.last_updated = Num(now)]

\* current_emotion = emotion; last_updated = Date.now()
Feel(old, emotion, now) ==
    [old EXCEPT !.current_emotion = emotion, !.last_updated = Num(now)]

RECURSIVE ApplyEmotions(_, _, _)
ApplyEmotions(cs, entries, now) ==
    IF entries = <<>> THEN cs
    ELSE LET charName == Head(entries)[1]
             emotion == Head(entries)[2]
             old == IF charName \in DOMAIN cs THEN cs[charName]
                    ELSE NewCharacterState(charName)
         IN  ApplyEmotions(
                 Put(cs, charName, Feel(old, emotion, now)),
                 Tail(entries), now)

KnowAgain(known_events, id) == Append(known_events, id)

\* known_events.push(event.id) unless it includes event.id
Know(known_events, id) ==
    IF id \in Range(known_events) THEN known_events ELSE Append(known_events, id)

RECURSIVE AddWitnesses(_, _, _)
AddWitnesses(cs, ws, id) ==
    IF ws = <<>> THEN cs
    ELSE LET witness == Head(ws)
             old == IF witness \in DOMAIN cs THEN cs[witness]
                    ELSE NewCharacterState(witness)
             new == [old EXCEPT !.known_events = Know(@, id)]
         IN  AddWitnesses(Put(cs, witness, new), Tail(ws), id)

\* for (const witness of (event.witnesses || [])): a falsy value gives the
\* empty list; a truthy value that is neither an array nor a string is not
\* iterable and the loop throws a TypeError.
WitnessesIterable(event) ==
    ~Truthy(event.witnesses) \/ event.witnesses.t \in {"list", "str"}

WitnessList(event) == IF Truthy(event.witnesses) THEN event.witnesses.v ELSE <<>>

\* updateCharacterStatesFromEvents: the character states after the events,
\* and whether the function threw (the states are those reached by then).
RECURSIVE updateCharacterStatesFromEvents(_, _, _)
updateCharacterStatesFromEvents(events, cs, now) ==
    IF events = <<>> THEN [cs |-> cs, threw |-> FALSE]
    ELSE LET event == Head(events)
             cs1 == IF Truthy(event.emotional_impact)
                    THEN ApplyEmotions(cs, Entries(event.emotional_impact), now)
                    ELSE cs
         IN  IF ~WitnessesIterable(event) THEN [cs |-> cs1, threw |-> TRUE]
             ELSE updateCharacterStatesFromEvents(
                      Tail(events), AddWitnesses(cs1, WitnessList(event), event.id), now)

\* relationKey.match(/^(.+?)\s*->\s*(.+)$/) over a key given as a sequence of
\* tokens: names, " " (white space) and "->".
IsWs(tok) == tok = " "

\* the arrow that follows k[1..a] and white space only, with text after it
ArrowAfter(k, a) ==
    {j \in (a + 1)..(Len(k) - 1) :
        k[j] = "->" /\ \A i \in (a + 1)..(j - 1) : IsWs(k[i])}

KeyMatches(k) == \E a \in 1..Len(k) : ArrowAfter(k, a) # {}

\* group 1 taken up to the arrow, white space included
KeyCharAGreedy(k) ==
    LET a == CHOOSE a \in 1..Len(k) :
                 ArrowAfter(k, a) # {} /\ \A b \in 1..(a - 1) : ArrowAfter(k, b) = {}
        j == CHOOSE j \in ArrowAfter(k, a) : TRUE
    IN  SubSeq(k, 1, j - 1)

\* group 1 is lazy: the shortest prefix after which the rest matches
KeyCharA(k) ==
    LET a == CHOOSE a \in 1..Len(k) :
                 ArrowAfter(k, a) # {} /\ \A b \in 1..(a - 1) : ArrowAfter(k, b) = {}
    IN  SubSeq(k, 1, a)

\* group 2: what follows the arrow, leading white space dropped unless
\* nothing else is left
KeyCharB(k) ==
    LET a == Len(KeyCharA(k))
        j == CHOOSE j \in ArrowAfter(k, a) : TRUE
        rest == SubSeq(k, j + 1, Len(k))
        n == Cardinality({i \in 1..Len(rest) : \A h \in 1..i : IsWs(rest[h])})
    IN  IF n = Len(rest) THEN <<rest[Len(rest)]>> ELSE SubSeq(rest, n + 1, Len(rest))

\* const key = `${charA}<->${charB}`
PairKey(charA, charB) == charA \o <<"<->">> \o charB

NewRelationship(charA, charB) ==
    [character_a |-> charA,
     character_b |-> charB,
     trust_level |-> DefaultTrust,
     tension_level |-> DefaultTension,
     relationship_type |-> "acquaintance",
     history |-> <<>>]

\* the trust heuristic without its limits
TrustAfterUnclamped(level, words) ==
    IF Includes(words, "trust") /\ Includes(words, "increas") THEN level + 1
    ELSE IF Includes(words, "trust") /\ Includes(words, "decreas") THEN level - 1
    ELSE level

\* the keyword heuristics on impact.toLowerCase()
TrustAfter(level, words) ==
    IF Includes(words, "trust") /\ Includes(words, "increas") THEN Min(LevelMax, level + 1)
    ELSE IF Includes(words, "trust") /\ Includes(words, "decreas") THEN Max(LevelMin, level - 1)
    ELSE level

TensionAfter(level, words) ==
    IF Includes(words, "tension") /\ Includes(words, "increas") THEN Min(LevelMax, level + 1)
    ELSE IF Includes(words, "tension") /\ Includes(words, "decreas") THEN Max(LevelMin, level - 1)
    ELSE level

\* a history that takes one entry for each event only
PushHistoryOnce(history, id, impact, now) ==
    IF \E i \in 1..Len(history) : history[i].event_id = id THEN history
    ELSE Append(history, [event_id |-> id, impact |-> impact, timestamp |-> now])

\* history.push({ event_id, impact, timestamp })
PushHistory(history, id, impact, now) ==
    Append(history, [event_id |-> id, impact |-> impact, timestamp |-> now])

\* One relationship_impact entry.  impact.toLowerCase() throws on a value
\* that is not a string, after the Relationship has been created.
RECURSIVE ApplyImpacts(_, _, _, _)
ApplyImpacts(rels, entries, id, now) ==
    IF entries = <<>> THEN [rels |-> rels, threw |-> FALSE]
    ELSE LET relationKey == Head(entries)[1]
             impact == Head(entries)[2]
         IN  IF ~KeyMatches(relationKey) THEN ApplyImpacts(rels, Tail(entries), id, now)
             ELSE LET key == PairKey(KeyCharA(relationKey), KeyCharB(relationKey))
                      old == IF key \in DOMAIN rels THEN rels[key]
                             ELSE NewRelationship(KeyCharA(relationKey), KeyCharB(relationKey))
                  IN  IF impact.t # "str"
                      THEN [rels |-> Put(rels, key, old), threw |-> TRUE]
                      ELSE ApplyImpacts(
                               Put(rels, key,
                                   [old EXCEPT
                                      !.trust_level = TrustAfter(@, impact.v),
                                      !.tension_level = TensionAfter(@, impact.v),
                                      !.history = PushHistory(@, id, impact, now)]),
                               Tail(entries), id, now)

\* updateRelationshipsFromEvents
RECURSIVE updateRelationshipsFromEvents(_, _, _)
updateRelationshipsFromEvents(events, rels, now) ==
    IF events = <<>> THEN [rels |-> rels, threw |-> FALSE]
    ELSE LET event == Head(events)
             r1 == IF Truthy(event.relationship_impact)
                   THEN ApplyImpacts(rels, Entries(event.relationship_impact), event.id, now)
                   ELSE [rels |-> rels, threw |-> FALSE]
         IN  IF r1.threw THEN r1
             ELSE updateRelationshipsFromEvents(Tail(events), r1.rels, now)

\* ------------------------------------------------------- the store
EmptyMap == [x \in {} |-> Undefined]

\* the arrays the modular store adds to the one of getOpenVaultData
ExtractedBatchesInit == <<>>

\* getOpenVaultData: the store object created for a chat that has none
EmptyStore ==
    [memories |-> <<>>,
     character_states |-> EmptyMap,
     relationships |-> EmptyMap,
     last_processed_message_id |-> NoMarker,
     last_extraction_batch |-> Undefined,
     extracted_batches |-> ExtractedBatchesInit]

\* the part of the store an extraction cycle writes
Core(d) ==
    [memories |-> d.memories,
     character_states |-> d.character_states,
     relationships |-> d.relationships,
     last_processed_message_id |-> d.last_processed_message_id]

\* ------------------------------------------- the model's responses
RawEvent ==
    [id |-> Undefined,
     event_type |-> Str(<<"action">>),
     summary |-> Str(<<"met">>),
     characters_involved |-> List(<<"Alice", "Bob">>),
     witnesses |-> List(<<"Alice">>),
     location |-> Undefined,
     is_secret |-> Undefined,
     emotional_impact |-> Obj(<< <<"Alice", Str(<<"glad">>)>> >>),
     relationship_impact |->
         Obj(<< <<(<<"Alice", " ", "->", " ", "Bob">>), Str(<<"Trust", "increased">>)>> >>)]

\* an event whose relationship impact is a number, not a text
RawEventBadImpact ==
    [RawEvent EXCEPT !.relationship_impact =
         Obj(<< <<(<<"Alice", "->", "Bob">>), Num(1)>> >>)]

\* an event object that carries an id of its own, witnessed by one character
RawEventGivenId(witness) ==
    [RawEvent EXCEPT !.id = Num(GivenId), !.witnesses = List(<<witness>>),
                     !.emotional_impact = Undefined, !.relationship_impact = Undefined]

Array(s) == [t |-> "array", v |-> s]

RThrow == [t |-> "throw"]
REmptyContent == [t |-> "content", empty |-> TRUE,
                  text |-> [fence |-> NoFence, raw |-> Invalid]]
RNotJson == [t |-> "content", empty |-> FALSE,
             text |-> [fence |-> NoFence, raw |-> Invalid]]
RNoEvents == [t |-> "content", empty |-> FALSE,
              text |-> [fence |-> NoFence, raw |-> Array(<<>>)]]
ROneEvent == [t |-> "content", empty |-> FALSE,
              text |-> [fence |-> Array(<<RawEvent>>), raw |-> Invalid]]
RBadImpact == [t |-> "content", empty |-> FALSE,
               text |-> [fence |-> NoFence, raw |-> Array(<<RawEventBadImpact>>)]]

RGivenId(witness) ==
    [t |-> "content", empty |-> FALSE,
     text |-> [fence |-> NoFence, raw |-> Array(<<RawEventGivenId(witness)>>)]]

Responses == {RThrow, REmptyContent, RNotJson, RNoEvents, ROneEvent, RBadImpact}

\* ----------------------------------------------------------- state
VARIABLES
    chat,       \* the turns; turn id i is chat[i + 1], a record [is_system]
    settings,   \* extension_settings[extensionName]
    data,       \* the chat's store (chatMetadata.openvault)
    status,     \* the status indicator
    clock,      \* source of Date.now() and of generated ids
    cyc,        \* per caller, the extraction cycle it is running
    run,        \* the backfill run
    pre,        \* per caller, the store as its cycle found it
    done,       \* turns of the batches earlier backfill runs completed
    ctx         \* the retrieval side: the inputs and the result of its last call

vars == <<chat, settings, data, status, clock, cyc, run, pre, done, ctx>>

Procs == {"bf", "ui"}

IdleCycle == [pc |-> "idle", ver |-> "mod", ids |-> <<>>, n |-> 0, got |-> "none"]

IdleRun ==
    [pc |-> "idle", ver |-> "mod", ids |-> <<>>, size |-> 0, k |-> 0, i |-> 0,
     totalEvents |-> 0, log |-> <<>>, ok |-> {}, failed |-> {}, sum |-> 0,
     turns |-> {}, before |-> <<>>, reported |-> -1, saved |-> FALSE]

NoSnap == [t |-> "none"]

\* nothing has been retrieved
NoCtx == [op |-> "none"]
Snap(d) == [t |-> "snap", v |-> Core(d)]

\* a position whose continuation runs before any other event
Urgent(p) == cyc[p].pc \in {"returned", "skipped", "threw"}
Quiet == run.pc # "report" /\ \A p \in Procs : ~Urgent(p)

\* ------------------------------------------------- turn selection
\* ch is context.chat, m the marker data[LAST_PROCESSED_KEY]
IsSystem(ch, id) == id + 1 \in 1..Len(ch) /\ ch[id + 1].is_system

\* chat.map((m, idx) => idx)
ChatIds(len) == [i \in 1..len |-> i - 1]

\* data[LAST_PROCESSED_KEY] || -1
OrMarker(m) == IF m = 0 THEN NoMarker ELSE m

\* settings.messagesPerExtraction || 5
MessageCount ==
    IF settings.messagesPerExtraction = 0 THEN DefaultMessageCount
    ELSE settings.messagesPerExtraction

\* the first n instead of the last n
SliceFirst(s, n) == IF Len(s) <= n THEN s ELSE SubSeq(s, 1, n)

\* s.slice(-n), n > 0
SliceLast(s, n) == IF Len(s) <= n THEN s ELSE SubSeq(s, Len(s) - n + 1, Len(s))

DropLastKeepsAll(s, n) == s

\* s.slice(0, -n), n > 0
DropLast(s, n) == IF Len(s) <= n THEN <<>> ELSE SubSeq(s, 1, Len(s) - n)

\* messagesToExtract of extractMemories(messageIds)
ExplicitSelection(ver, messageIds, ch) ==
    IF ver = "mod" THEN messageIds
    ELSE SelectSeq(messageIds, LAMBDA id : ~IsSystem(ch, id))

AutoSelection(ver, ch, m) ==
    SliceLast(
        SelectSeq(ChatIds(Len(ch)), LAMBDA id : ~IsSystem(ch, id) /\ id > OrMarker(m)),
        IF ver = "mod" THEN MessageCount ELSE BaseAutoCount)

MessagesToExtract(ver, messageIds, ch, m) ==
    IF messageIds # <<>> THEN ExplicitSelection(ver, messageIds, ch)
    ELSE AutoSelection(ver, ch, m)

\* ---------------------------------------------------- backfill plan
\* alreadyExtractedIds: every id in some stored memory's message_ids
AlreadyExtractedIds(memories) ==
    UNION {Range(memories[i].message_ids) : i \in 1..Len(memories)}

\* allMessageIds: the chat's ids that are not already extracted
UnextractedIds(len, extracted) ==
    SelectSeq(ChatIds(len), LAMBDA id : id \notin extracted)

BackfillPlanPartial(len, extracted, messageCount) ==
    LET kept == DropLast(UnextractedIds(len, extracted), messageCount)
    IN  [ids |-> kept, k |-> (Len(kept) + messageCount - 1) \div messageCount]

\* messagesToExtract and completeBatches of extractAllMessages
BackfillPlan(len, extracted, messageCount) ==
    LET kept == DropLast(UnextractedIds(len, extracted), messageCount)
        completeBatches == Len(kept) \div messageCount
    IN  [ids |-> SubSeq(kept, 1, completeBatches * messageCount),
         k |-> completeBatches]

\* messagesToExtract.slice(startIdx, startIdx + messageCount), startIdx = i * size
Batch(ids, i, size) == SubSeq(ids, i * size + 1, Min((i + 1) * size, Len(ids)))

\* the turns of the base backfill: every non-system id, in batches of 5
BasePlan ==
    LET ids == SelectSeq(ChatIds(Len(chat)), LAMBDA id : ~IsSystem(chat, id))
    IN  [ids |-> ids, k |-> (Len(ids) + BaseBatchSize - 1) \div BaseBatchSize]

\* Math.ceil(60000 / (settings.backfillMaxRPM || 30))
DelayMs ==
    LET rpm == IF settings.backfillMaxRPM = 0 THEN DefaultRPM ELSE settings.backfillMaxRPM
    IN  (MinuteMs + rpm - 1) \div rpm

\* ------------------------------------------------ extraction cycle
\* extractMemories up to its first await: the early returns, setStatus and
\* the profile lookup of callLLMForExtraction (no profile: it throws, the
\* catch sets 'error').  st is the status, ch the chat and d the store on
\* entry; profile: a connection profile resolves (settings.extractionProfile
\* or the selected profile of the connection manager).
BeginCycle(ver, messageIds, st, ch, d, profile) ==
    LET sel == MessagesToExtract(ver, messageIds, ch, d.last_processed_message_id)
    IN  IF ~settings.enabled \/ Len(ch) = 0 \/ sel = <<>>
        THEN [cyc |-> [pc |-> "skipped", ver |-> ver, ids |-> sel, n |-> 0, got |-> "none"],
              status |-> st]
        ELSE IF ~profile
        THEN [cyc |-> [pc |-> "threw", ver |-> ver, ids |-> sel, n |-> 0, got |-> "noprofile"],
              status |-> "error"]
        ELSE [cyc |-> [pc |-> "llm", ver |-> ver, ids |-> sel, n |-> 0, got |-> "none"],
              status |-> "extracting"]

CommitEventsLastBatch(d, ver, events, ids, now, c1, r1) ==
    IF c1.threw
    THEN [data |-> [d EXCEPT !.memories = @ \o events, !.character_states = c1.cs],
          threw |-> TRUE]
    ELSE IF r1.threw
    THEN [data |-> [d EXCEPT !.memories = @ \o events, !.character_states = c1.cs,
                             !.relationships = r1.rels],
          threw |-> TRUE]
    ELSE [data |-> [d EXCEPT !.memories = @ \o events,
                             !.character_states = c1.cs,
                             !.relationships = r1.rels,
                             !.last_processed_message_id = SeqMax(ids),
                             !.last_extraction_batch = IF ver = "mod" THEN Num(now) ELSE @],
          threw |-> FALSE]

\* The events branch of extractMemories up to the save, c1 and r1 being what
\* the propagators make of the events: push the events, propagate, advance
\* the marker, store the batch id.  A propagator that throws leaves what
\* was written before it.
CommitEvents(d, ver, events, ids, now, c1, r1) ==
    IF c1.threw
    THEN [data |-> [d EXCEPT !.memories = @ \o events, !.character_states = c1.cs],
          threw |-> TRUE]
    ELSE IF r1.threw
    THEN [data |-> [d EXCEPT !.memories = @ \o events, !.character_states = c1.cs,
                             !.relationships = r1.rels],
          threw |-> TRUE]
    ELSE [data |-> [d EXCEPT !.memories = @ \o events,
                             !.character_states = c1.cs,
                             !.relationships = r1.rels,
                             !.last_processed_message_id = Max(OrMarker(@), SeqMax(ids)),
                             !.last_extraction_batch = IF ver = "mod" THEN Num(now) ELSE @],
          threw |-> FALSE]

StoreEvents(d, ver, events, ids, now) ==
    CommitEvents(d, ver, events, ids, now,
                 updateCharacterStatesFromEvents(events, d.character_states, now),
                 updateRelationshipsFromEvents(events, d.relationships, now))

\* What a response is to the cycle
Got(resp) ==
    IF resp.t = "throw" THEN "throw"
    ELSE IF resp.empty THEN "empty"
    ELSE IF Cleaned(resp.text).t = "invalid" THEN "notjson"
    ELSE "json"

\* extractMemories after the events branch: stored is what it left
AfterStore(c, got, n, d, stored) ==
    IF stored.threw
    THEN [cyc |-> [c EXCEPT !.pc = "threw", !.got = got], data |-> stored.data,
          status |-> "error"]
    ELSE [cyc |-> [c EXCEPT !.pc = "save", !.got = got, !.n = n],
          data |-> stored.data, status |-> status]

\* extractMemories after the parse, without setStatus('ready') when there
\* are no events
AfterParseNoReady(c, got, events, d, now) ==
    IF Len(events) = 0
    THEN [cyc |-> [c EXCEPT !.pc = "returned", !.got = got, !.n = 0], data |-> d,
          status |-> status]
    ELSE AfterStore(c, got, Len(events), d, StoreEvents(d, c.ver, events, c.ids, now))

\* extractMemories after the parse
AfterParse(c, got, events, d, now) ==
    IF Len(events) = 0
    THEN [cyc |-> [c EXCEPT !.pc = "returned", !.got = got, !.n = 0], data |-> d,
          status |-> "ready"]
    ELSE AfterStore(c, got, Len(events), d, StoreEvents(d, c.ver, events, c.ids, now))

\* extractMemories from the response of the model to the save (or the end)
AfterResponse(c, resp, d, now) ==
    IF Got(resp) \in {"throw", "empty"}
    THEN [cyc |-> [c EXCEPT !.pc = "threw", !.got = Got(resp)], data |-> d,
          status |-> "error"]
    ELSE AfterParse(c, Got(resp), parseExtractionResult(resp.text, c.ids, now), d, now)

\* the snapshots of the other callers are void once the store has changed
Voided(p, d) ==
    [q \in Procs |-> IF q # p /\ Core(d) # Core(data) THEN NoSnap ELSE pre[q]]

\* The extract button: extractMemories() of either generation
ExtractButton(ver, profile) ==
    /\ Quiet
    /\ cyc["ui"].pc = "idle"
    /\ LET b == BeginCycle(ver, <<>>, status, chat, data, profile)
       IN  /\ cyc' = [cyc EXCEPT !["ui"] = b.cyc]
           /\ status' = b.status
    /\ pre' = [pre EXCEPT !["ui"] = Snap(data)]
    /\ UNCHANGED <<chat, settings, data, clock, run, done, ctx>>

\* updateEventListeners registers onMessageReceived iff both are set
Listening == settings.enabled /\ settings.automaticMode

\* A turn is appended to the chat.  With the automatic listener registered,
\* onMessageReceived(messageId) runs extractMemories([messageId]).
MessageReceived(profile) ==
    /\ Quiet
    /\ Len(chat) < MaxChat
    /\ Listening => cyc["ui"].pc = "idle"
    /\ chat' = Append(chat, [is_system |-> FALSE])
    /\ done' = {}
    /\ IF Listening
       THEN LET b == BeginCycle("base", <<Len(chat)>>, status, chat', data, profile)
            IN  /\ cyc' = [cyc EXCEPT !["ui"] = b.cyc]
                /\ status' = b.status
                /\ pre' = [pre EXCEPT !["ui"] = Snap(data)]
       ELSE UNCHANGED <<cyc, status, pre>>
    /\ UNCHANGED <<settings, data, clock, run, ctx>>

\* the cycle of p goes on with r, what extractMemories made of the response
Settle(p, r) ==
    /\ cyc' = [cyc EXCEPT ![p] = r.cyc]
    /\ data' = r.data
    /\ status' = r.status
    /\ pre' = Voided(p, r.data)
    /\ clock' = clock + Len(r.data.memories) - Len(data.memories)
                      + (IF r.data = data THEN 0 ELSE 1)

\* The model answers (or the request fails) for the cycle of p
LLMReturn(p, resp) ==
    /\ Quiet
    /\ cyc[p].pc = "llm"
    /\ Got(resp) = "json" =>
           Len(data.memories) + Len(parseExtractionResult(resp.text, <<>>, 0)) <= MaxMem
    /\ Settle(p, AfterResponse(cyc[p], resp, data, clock))
    /\ UNCHANGED <<chat, settings, run, done, ctx>>

\* saveOpenVaultData settles: await saveChatConditional() returned or threw
SaveReturn(p, saved) ==
    /\ Quiet
    /\ cyc[p].pc = "save"
    /\ cyc' = [cyc EXCEPT ![p].pc = IF saved THEN "returned" ELSE "threw"]
    /\ status' = IF saved THEN "ready" ELSE "error"
    /\ UNCHANGED <<chat, settings, data, clock, run, pre, done, ctx>>

\* The caller of a finished manual or automatic cycle has nothing left to do
UiDone ==
    /\ Urgent("ui")
    /\ cyc' = [cyc EXCEPT !["ui"] = IdleCycle]
    /\ pre' = [pre EXCEPT !["ui"] = NoSnap]
    /\ UNCHANGED <<chat, settings, data, status, clock, run, done, ctx>>

\* the enabled toggle of the settings panel
ToggleEnabled ==
    /\ Quiet
    /\ settings' = [settings EXCEPT !.enabled = ~@]
    /\ UNCHANGED <<chat, data, status, clock, cyc, run, pre, done, ctx>>

\* the automatic mode toggle of the settings panel
ToggleAutomatic ==
    /\ Quiet
    /\ settings' = [settings EXCEPT !.automaticMode = ~@]
    /\ UNCHANGED <<chat, data, status, clock, cyc, run, pre, done, ctx>>

\* The host hides the first turn: it becomes a system turn
HideFirst ==
    /\ Quiet
    /\ Len(chat) > 0 /\ ~chat[1].is_system
    /\ chat' = [chat EXCEPT ![1].is_system = TRUE]
    /\ done' = {}
    /\ UNCHANGED <<settings, data, status, clock, cyc, run, pre, ctx>>

\* --------------------------------------------------------- backfill
Call(i) == [e |-> "call", i |-> i, ms |-> 0]
Wait(ms) == [e |-> "wait", i |-> 0, ms |-> ms]

\* The loop of extractAllMessages calls extractMemories(batch) for batch i
\* of run r; st is the status and d the store at the call.
CallBatch(r, i, st, d, profile) ==
    LET b == BeginCycle(r.ver, Batch(r.ids, i, r.size), st, chat, d, profile)
    IN  [cyc |-> b.cyc, status |-> b.status,
         run |-> [r EXCEPT !.pc = "cycle", !.i = i, !.log = Append(@, Call(i))]]

MarkExtractedAgain(batches, i) == Append(batches, i)

\* data[EXTRACTED_BATCHES_KEY].push(i) unless it includes i
MarkExtracted(batches, i) == IF i \in Range(batches) THEN batches ELSE Append(batches, i)

\* The backfill button of the modular panel: extractAllMessages up to the
\* first extractMemories(batch)
BackfillStart(profile) ==
    /\ Quiet
    /\ run.pc = "idle" /\ cyc["bf"].pc = "idle"
    /\ Len(chat) > 0
    /\ LET plan == BackfillPlan(Len(chat), AlreadyExtractedIds(data.memories), MessageCount)
           r == [IdleRun EXCEPT !.ver = "mod", !.ids = plan.ids, !.size = MessageCount,
                                !.k = plan.k, !.before = data.extracted_batches]
           c == CallBatch(r, 0, "extracting", data, profile)
       IN  /\ plan.ids # <<>>
           /\ run' = c.run
           /\ cyc' = [cyc EXCEPT !["bf"] = c.cyc]
           /\ status' = c.status
    /\ pre' = [pre EXCEPT !["bf"] = Snap(data)]
    /\ UNCHANGED <<chat, settings, data, clock, done, ctx>>

\* The backfill of index.js: the marker is reset, every non-system turn is
\* extracted again in batches of 5
BaseBackfillStart(profile) ==
    /\ Quiet
    /\ run.pc = "idle" /\ cyc["bf"].pc = "idle"
    /\ Len(chat) > 0
    /\ LET d == [data EXCEPT !.last_processed_message_id = NoMarker]
           r == [IdleRun EXCEPT !.ver = "base", !.ids = BasePlan.ids,
                                !.size = BaseBatchSize, !.k = BasePlan.k,
                                !.before = data.extracted_batches]
           c == CallBatch(r, 0, status, d, profile)
       IN  /\ data' = d
           /\ pre' = [Voided("bf", d) EXCEPT !["bf"] = Snap(d)]
           /\ IF BasePlan.ids = <<>>
              THEN UNCHANGED <<run, cyc, status>>
              ELSE /\ run' = c.run
                   /\ cyc' = [cyc EXCEPT !["bf"] = c.cyc]
                   /\ status' = c.status
    /\ UNCHANGED <<chat, settings, clock, done, ctx>>

\* the loop is over: extractAllMessages goes on to its end
\* a loop that goes from its last batch straight to the report
EndLoopAtOnce(r) == [r EXCEPT !.pc = "report", !.reported = r.totalEvents]

\* the loop is over: the modular backfill goes on to clear the injection
\* and to save, the backfill of index.js to its report
EndLoop(r) ==
    IF r.ver = "mod" THEN [r EXCEPT !.pc = "final"]
    ELSE [r EXCEPT !.pc = "report", !.reported = r.totalEvents]

\* The cycle of the current batch returned: count its events, mark the
\* batch, then wait (or leave the loop).
BatchReturned(r, c, d) ==
    LET r1 == [r EXCEPT !.totalEvents = @ + c.n,
                        !.ok = @ \cup {r.i},
                        !.sum = @ + c.n,
                        !.turns = @ \cup (IF c.pc = "returned" THEN Range(c.ids) ELSE {})]
    IN  IF r.ver = "mod"
        THEN [data |-> [d EXCEPT !.extracted_batches = MarkExtracted(@, r.i)],
              run |-> IF r.i + 1 < r.k
                      THEN [r1 EXCEPT !.pc = "delay", !.log = Append(@, Wait(DelayMs))]
                      ELSE EndLoop(r1)]
        ELSE [data |-> d,
              run |-> [r1 EXCEPT !.pc = "delay", !.log = Append(@, Wait(BaseDelayMs))]]

\* safeSetExtensionPrompt(''): the injected context, where it is modelled
HasPrompt(c) == "prompt" \in DOMAIN c
safeSetExtensionPrompt(c, text) == IF HasPrompt(c) THEN [c EXCEPT !.prompt = text] ELSE c

\* the injection after a step of the loop: cleared when the modular loop is over
AfterLoop(r, c) == IF r.pc = "final" THEN safeSetExtensionPrompt(c, "") ELSE c

\* extractMemories(batch) settled and the loop of extractAllMessages goes
\* on: after a return to the delay or the end, after a throw straight to
\* the next batch.
BatchDone(profile) ==
    /\ Urgent("bf")
    /\ run.pc = "cycle"
    /\ IF cyc["bf"].pc = "threw"
       THEN LET r == [run EXCEPT !.failed = @ \cup {run.i}]
                c == CallBatch(r, run.i + 1, status, data, profile)
            IN  /\ IF run.i + 1 < run.k
                   THEN /\ run' = c.run
                        /\ cyc' = [cyc EXCEPT !["bf"] = c.cyc]
                        /\ status' = c.status
                        /\ pre' = [pre EXCEPT !["bf"] = Snap(data)]
                   ELSE /\ run' = EndLoop(r)
                        /\ cyc' = [cyc EXCEPT !["bf"] = IdleCycle]
                        /\ pre' = [pre EXCEPT !["bf"] = NoSnap]
                        /\ UNCHANGED status
                /\ UNCHANGED data
       ELSE LET b == BatchReturned(run, cyc["bf"], data)
            IN  /\ run' = b.run
                /\ data' = b.data
                /\ cyc' = [cyc EXCEPT !["bf"] = IdleCycle]
                /\ pre' = [pre EXCEPT !["bf"] = NoSnap]
                /\ UNCHANGED status
    /\ ctx' = AfterLoop(run', ctx)
    /\ UNCHANGED <<chat, settings, clock, done>>

\* The timer of the inter-batch delay fires: the next batch, or (index.js,
\* which also waits after the last batch) the end
DelayDone(profile) ==
    /\ Quiet
    /\ run.pc = "delay"
    /\ LET c == CallBatch(run, run.i + 1, status, data, profile)
       IN  IF run.i + 1 < run.k
           THEN /\ run' = c.run
                /\ cyc' = [cyc EXCEPT !["bf"] = c.cyc]
                /\ status' = c.status
                /\ pre' = [pre EXCEPT !["bf"] = Snap(data)]
           ELSE /\ run' = EndLoop(run)
                /\ UNCHANGED <<cyc, status, pre>>
    /\ ctx' = AfterLoop(run', ctx)
    /\ UNCHANGED <<chat, settings, data, clock, done>>

\* await saveChatConditional() at the end of the modular backfill settles;
\* the report and setStatus('ready') follow it.  track: the turns of the
\* run's completed batches are remembered in done.
FinalSaved(saved, track) ==
    /\ Quiet
    /\ run.pc = "final"
    /\ run' = IF saved THEN [run EXCEPT !.pc = "report", !.reported = run.totalEvents,
                                       !.saved = TRUE]
               ELSE IdleRun
    /\ status' = IF saved THEN "ready" ELSE status
    /\ done' = IF track THEN done \cup run.turns ELSE done
    /\ UNCHANGED <<chat, settings, data, clock, cyc, pre, ctx>>

\* extractAllMessages has shown its report and returns
RunEnd ==
    /\ run.pc = "report"
    /\ run' = IdleRun
    /\ UNCHANGED <<chat, settings, data, status, clock, cyc, pre, done, ctx>>

\* ---------------------------------------------------- specification
\* the settings a run of the model starts with: the toggles at their
\* defaults, a batch size and a rate limit (0: not set)
InitSettings ==
    {[enabled |-> TRUE, automaticMode |-> TRUE, messagesPerExtraction |-> c[1],
      backfillMaxRPM |-> c[2]] : c \in {<<1, 0>>, <<2, 7>>}}

Init ==
    /\ \E n \in 0..MaxChat : chat = [i \in 1..n |-> [is_system |-> FALSE]]
    /\ settings \in InitSettings
    /\ data = EmptyStore
    /\ status = "ready"
    /\ clock = 0
    /\ cyc = [p \in Procs |-> IdleCycle]
    /\ run = IdleRun
    /\ pre = [p \in Procs |-> NoSnap]
    /\ done = {}
    /\ ctx = NoCtx

\* no extraction cycle and no backfill run is in progress
Idle == run.pc = "idle" /\ \A p \in Procs : cyc[p].pc = "idle"

\* The operations are triggered one at a time: an extraction or a backfill
\* is started only when none is in progress.
Extract(profile) == \E ver \in {"mod", "base"} : Idle /\ ExtractButton(ver, profile)
Receive(profile) == (Listening => Idle) /\ MessageReceived(profile)

\* Every operation that writes the store, with a connection profile set and
\* saves that succeed; the model answers with no events or one
Next ==
    \/ Extract(TRUE)
    \/ Receive(TRUE)
    \/ ToggleAutomatic
    \/ HideFirst
    \/ \E p \in Procs, resp \in {RNoEvents, ROneEvent} : LLMReturn(p, resp)
    \/ \E p \in Procs : SaveReturn(p, TRUE)
    \/ UiDone
    \/ Idle /\ BackfillStart(TRUE)
    \/ Idle /\ BaseBackfillStart(TRUE)
    \/ BatchDone(TRUE)
    \/ DelayDone(TRUE)
    \/ FinalSaved(TRUE, FALSE)
    \/ RunEnd

Spec == Init /\ [][Next]_vars

\* Single extraction cycles, every response of the model
NextCycle ==
    \/ \E profile \in BOOLEAN : Extract(profile)
    \/ \E profile \in BOOLEAN : Receive(profile)
    \/ ToggleEnabled
    \/ HideFirst
    \/ \E resp \in Responses : LLMReturn("ui", resp)
    \/ \E saved \in BOOLEAN : SaveReturn("ui", saved)
    \/ UiDone

SpecCycle == Init /\ [][NextCycle]_vars

\* Runs of the modular backfill, every response of the model
NextBackfill ==
    \/ \E resp \in Responses : LLMReturn("bf", resp)
    \/ \E saved \in BOOLEAN : SaveReturn("bf", saved)
    \/ \E profile \in BOOLEAN : Idle /\ BackfillStart(profile)
    \/ \E profile \in BOOLEAN : BatchDone(profile)
    \/ \E profile \in BOOLEAN : DelayDone(profile)
    \/ \E saved \in BOOLEAN : FinalSaved(saved, FALSE)
    \/ RunEnd

SpecBackfill == Init /\ [][NextBackfill]_vars

\* Runs of the modular backfill to their end: a context is or is not
\* injected when the run starts, the model answers or throws, the saves
\* are fulfilled, and every call that is awaited settles
InitFinish ==
    /\ \E n \in 0..MaxChat : chat = [i \in 1..n |-> [is_system |-> FALSE]]
    /\ settings \in InitSettings
    /\ data = EmptyStore
    /\ status = "ready"
    /\ clock = 0
    /\ cyc = [p \in Procs |-> IdleCycle]
    /\ run = IdleRun
    /\ pre = [p \in Procs |-> NoSnap]
    /\ done = {}
    /\ ctx \in {[op |-> "inject", prompt |-> text, before |-> text] : text \in {"", "memories"}}

NextFinish ==
    \/ \E resp \in Responses : LLMReturn("bf", resp)
    \/ SaveReturn("bf", TRUE)
    \/ Idle /\ BackfillStart(TRUE)
    \/ BatchDone(TRUE)
    \/ DelayDone(TRUE)
    \/ FinalSaved(TRUE, FALSE)
    \/ RunEnd

SpecFinish == InitFinish /\ [][NextFinish]_vars /\ WF_vars(NextFinish)

\* deleteMemory(id): the first memory with this id is spliced out of the
\* list and the chat is saved; nothing else of the store is written
FindIndex(memories, id) ==
    IF \E i \in 1..Len(memories) : memories[i].id = id
    THEN CHOOSE i \in 1..Len(memories) :
             /\ memories[i].id = id
             /\ \A j \in 1..(i - 1) : memories[j].id # id
    ELSE 0

Splice(memories, idx) == SubSeq(memories, 1, idx - 1) \o SubSeq(memories, idx + 1, Len(memories))

deleteMemory(id) ==
    /\ Quiet
    /\ clock < MaxDeleteClock
    /\ FindIndex(data.memories, id) # 0
    /\ data' = [data EXCEPT !.memories = Splice(@, FindIndex(@, id))]
    /\ UNCHANGED <<chat, settings, status, clock, cyc, run, pre, done, ctx>>

\* Extraction cycles and deletions of single memories, one at a time; the
\* model answers with no event, an event without an id or an event that
\* carries an id
NextStore ==
    \/ Extract(TRUE)
    \/ \E resp \in {RNoEvents, ROneEvent, RGivenId("Alice"), RGivenId("Bob")} :
           LLMReturn("ui", resp)
    \/ SaveReturn("ui", TRUE)
    \/ UiDone
    \/ \E id \in 1..GivenId : Idle /\ deleteMemory(id)

SpecStore == Init /\ [][NextStore]_vars

\* A deletion of the chat's data while a cycle may be awaiting the model.
\* ctx.held is the store object the cycle got from getOpenVaultData when it
\* started, once deleteCurrentChatData has taken it out of the chat metadata;
\* data is what getOpenVaultData returns for the chat.
Attached == [op |-> "attached", held |-> EmptyStore]

\* deleteCurrentChatData, confirmed: delete chatMetadata[METADATA_KEY]; the
\* next getOpenVaultData (refreshAllUI) creates an empty store
DeleteChatData ==
    /\ Quiet
    /\ clock < MaxDeleteClock
    /\ cyc["ui"].pc \in {"idle", "llm"}
    /\ data # EmptyStore \/ cyc["ui"].pc = "llm"
    /\ data' = EmptyStore
    /\ ctx' = IF cyc["ui"].pc = "llm" /\ ctx.op = "attached"
              THEN [op |-> "detached", held |-> data] ELSE ctx
    /\ UNCHANGED <<chat, settings, status, clock, cyc, run, pre, done>>

\* The model answers for a cycle whose store object was deleted from the
\* chat metadata meanwhile: the cycle writes to the object it holds
LLMReturnDetached(resp) ==
    /\ Quiet
    /\ ctx.op = "detached"
    /\ cyc["ui"].pc = "llm"
    /\ LET r == AfterResponse(cyc["ui"], resp, ctx.held, clock)
       IN  /\ cyc' = [cyc EXCEPT !["ui"] = r.cyc]
           /\ ctx' = [ctx EXCEPT !.held = r.data]
           /\ status' = r.status
           /\ clock' = clock + Len(r.data.memories) - Len(ctx.held.memories)
                             + (IF r.data = ctx.held THEN 0 ELSE 1)
    /\ UNCHANGED <<chat, settings, data, run, pre, done>>

InitDetach ==
    /\ \E n \in 0..MaxChat : chat = [i \in 1..n |-> [is_system |-> FALSE]]
    /\ settings \in InitSettings
    /\ data = EmptyStore
    /\ status = "ready"
    /\ clock = 0
    /\ cyc = [p \in Procs |-> IdleCycle]
    /\ run = IdleRun
    /\ pre = [p \in Procs |-> NoSnap]
    /\ done = {}
    /\ ctx = Attached

NextDetach ==
    \/ \E ver \in {"mod", "base"} : ctx.op = "attached" /\ ExtractButton(ver, TRUE)
    \/ \E resp \in {RNoEvents, ROneEvent} : ctx.op = "attached" /\ LLMReturn("ui", resp)
    \/ \E resp \in {RNoEvents, ROneEvent} : LLMReturnDetached(resp)
    \/ SaveReturn("ui", TRUE)
    \/ UiDone
    \/ DeleteChatData

SpecDetach == InitDetach /\ [][NextDetach]_vars

\* The registrations of the automatic handlers.  ctx.registered counts the
\* registrations of onMessageReceived, onGenerationStarted and onChatChanged
\* with the event source, ctx.prompt is the injected context.
AutoEvents == {"MESSAGE_RECEIVED", "GENERATION_STARTED", "CHAT_CHANGED"}

\* eventSource.removeListener takes one registration away, if there is one
RemoveListener(registered) == [e \in AutoEvents |-> Max(0, registered[e] - 1)]

\* an update that registers without removing first
updateEventListenersOnTop(c, st, injected) ==
    IF st.enabled /\ st.automaticMode
    THEN [c EXCEPT !.registered = [e \in AutoEvents |-> @[e] + 1], !.prompt = injected]
    ELSE [c EXCEPT !.prompt = ""]

\* updateEventListeners: remove the three handlers, then register them and
\* update the injection (injected: what updatePersistentInjection sets) if
\* enabled and automaticMode are set, else clear the injection
updateEventListeners(c, st, injected) ==
    IF st.enabled /\ st.automaticMode
    THEN [c EXCEPT !.registered = [e \in AutoEvents |-> RemoveListener(@)[e] + 1],
                   !.prompt = injected]
    ELSE [c EXCEPT !.registered = RemoveListener(@), !.prompt = ""]

\* what updatePersistentInjection can set: nothing without memories
Injections == IF data.memories = <<>> THEN {""} ELSE {"", "memories"}

\* the enabled toggle and the automatic mode toggle of the panel
ChangeEnabled(val) ==
    /\ Quiet
    /\ settings' = [settings EXCEPT !.enabled = val]
    /\ \E injected \in Injections : ctx' = updateEventListeners(ctx, settings', injected)
    /\ UNCHANGED <<chat, data, status, clock, cyc, run, pre, done>>

ChangeAutomatic(val) ==
    /\ Quiet
    /\ settings' = [settings EXCEPT !.automaticMode = val]
    /\ \E injected \in Injections : ctx' = updateEventListeners(ctx, settings', injected)
    /\ UNCHANGED <<chat, data, status, clock, cyc, run, pre, done>>

\* the retrieve button: retrieveAndInjectContext sets the injection in
\* either mode
RetrieveButton ==
    /\ Quiet
    /\ settings.enabled
    /\ \E injected \in Injections : ctx' = [ctx EXCEPT !.prompt = injected]
    /\ UNCHANGED <<chat, settings, data, status, clock, cyc, run, pre, done>>

\* a turn arrives: onMessageReceived runs if it is registered
TurnArrives ==
    /\ (ctx.registered["MESSAGE_RECEIVED"] > 0) = Listening
    /\ Receive(TRUE)

\* APP_READY: the settings are loaded and updateEventListeners runs
InitListeners ==
    /\ \E n \in 0..MaxChat : chat = [i \in 1..n |-> [is_system |-> FALSE]]
    /\ \E s \in InitSettings, en \in BOOLEAN, au \in BOOLEAN :
           settings = [s EXCEPT !.enabled = en, !.automaticMode = au]
    /\ data = EmptyStore
    /\ status = "ready"
    /\ clock = 0
    /\ cyc = [p \in Procs |-> IdleCycle]
    /\ run = IdleRun
    /\ pre = [p \in Procs |-> NoSnap]
    /\ done = {}
    /\ ctx = updateEventListeners([op |-> "listeners", registered |-> [e \in AutoEvents |-> 0],
                                   prompt |-> ""], settings, "")

NextListeners ==
    \/ \E val \in BOOLEAN : ChangeEnabled(val)
    \/ \E val \in BOOLEAN : ChangeAutomatic(val)
    \/ RetrieveButton
    \/ TurnArrives
    \/ \E resp \in {RNoEvents, ROneEvent} : LLMReturn("ui", resp)
    \/ SaveReturn("ui", TRUE)
    \/ UiDone

SpecListeners == InitListeners /\ [][NextListeners]_vars

\* Runs of the modular backfill while the enabled toggle is used
NextToggle ==
    \/ \E resp \in {RThrow, RNoEvents, ROneEvent} : LLMReturn("bf", resp)
    \/ SaveReturn("bf", TRUE)
    \/ Idle /\ BackfillStart(TRUE)
    \/ BatchDone(TRUE)
    \/ DelayDone(TRUE)
    \/ FinalSaved(TRUE, FALSE)
    \/ RunEnd
    \/ ToggleEnabled

SpecToggle == Init /\ [][NextToggle]_vars

\* The triggers as the panel and the listener offer them: the extract
\* button, a received turn and the backfill button are not held back while
\* a cycle or a run is in progress
NextOverlap ==
    \/ ExtractButton("mod", TRUE)
    \/ MessageReceived(TRUE)
    \/ \E p \in Procs, resp \in {RNoEvents, ROneEvent} : LLMReturn(p, resp)
    \/ \E p \in Procs : SaveReturn(p, TRUE)
    \/ UiDone
    \/ BackfillStart(TRUE)
    \/ BatchDone(TRUE)
    \/ DelayDone(TRUE)
    \/ FinalSaved(TRUE, FALSE)
    \/ RunEnd

SpecOverlap == Init /\ [][NextOverlap]_vars

\* Backfill runs one after the other on a chat that does not change
NextResume ==
    \/ \E resp \in {RThrow, RNoEvents, ROneEvent} : LLMReturn("bf", resp)
    \/ \E saved \in BOOLEAN : SaveReturn("bf", saved)
    \/ \E profile \in BOOLEAN : Idle /\ BackfillStart(profile)
    \/ \E profile \in BOOLEAN : BatchDone(profile)
    \/ \E profile \in BOOLEAN : DelayDone(profile)
    \/ \E saved \in BOOLEAN : FinalSaved(saved, TRUE)
    \/ RunEnd

SpecResume == Init /\ [][NextResume]_vars

\* The planning of the backfill on its own: a chat of any length, a store
\* as one extraction of the turns S leaves it, any batch size.
PlanStore(S, n) ==
    LET ids == SelectSeq(ChatIds(n), LAMBDA id : id \in S)
    IN  IF S = {} THEN EmptyStore
        ELSE StoreEvents(EmptyStore, "mod", parseExtractionResult(ROneEvent.text, ids, 0),
                         ids, 0).data

InitPlan ==
    /\ \E n \in 0..MaxPlanChat, S \in SUBSET (0..(MaxPlanChat - 1)) :
           /\ S \subseteq 0..(n - 1)
           /\ chat = [i \in 1..n |-> [is_system |-> FALSE]]
           /\ data = PlanStore(S, n)
           /\ clock = IF S = {} THEN 0 ELSE 2
    /\ \E c \in 1..MaxPlanCount :
           settings = [enabled |-> TRUE, automaticMode |-> TRUE,
                       messagesPerExtraction |-> c, backfillMaxRPM |-> 0]
    /\ status = "ready"
    /\ cyc = [p \in Procs |-> IdleCycle]
    /\ run = IdleRun
    /\ pre = [p \in Procs |-> NoSnap]
    /\ done = {}
    /\ ctx = NoCtx

NextPlan == \E profile \in BOOLEAN : BackfillStart(profile)

SpecPlan == InitPlan /\ [][NextPlan]_vars

\* ------------------------------------------------- the POV filter
\* x?.some(n => n.toLowerCase() === charNameLower): a missing list gives
\* undefined; a value that is neither missing nor an array has no method
\* some, and the call throws a TypeError.
SomeThrows(x) == x.t \notin {"undefined", "list"}

SomeIs(x, charNameLower) ==
    x.t = "list" /\ \E i \in 1..Len(x.v) : Lower(x.v[i]) = charNameLower

\* const knownEventIds = data[CHARACTERS_KEY]?.[characterName]?.known_events || []
KnownEventIds(d, characterName) ==
    IF characterName \in DOMAIN d.character_states
    THEN d.character_states[characterName].known_events
    ELSE <<>>

\* the callback of memories.filter, without its secrecy test
AccessibleInvolved(m, knownEventIds, charNameLower) ==
    \/ SomeIs(m.witnesses, charNameLower)
    \/ SomeIs(m.characters_involved, charNameLower)
    \/ m.id \in Range(knownEventIds)

\* the callback of memories.filter
Accessible(m, knownEventIds, charNameLower) ==
    \/ SomeIs(m.witnesses, charNameLower)
    \/ ~Truthy(m.is_secret) /\ SomeIs(m.characters_involved, charNameLower)
    \/ m.id \in Range(knownEventIds)

\* the callback throws on this memory
AccessibleThrows(m, charNameLower) ==
    \/ SomeThrows(m.witnesses)
    \/ ~Truthy(m.is_secret) /\ SomeThrows(m.characters_involved)

accessibleMemories(d, characterName) ==
    SelectSeq(d.memories,
              LAMBDA m : Accessible(m, KnownEventIds(d, characterName), Lower(characterName)))

\* the filter throws: the callback throws on a memory it reaches
FilterThrows(d, characterName) ==
    \E i \in 1..Len(d.memories) : AccessibleThrows(d.memories[i], Lower(characterName))

\* the filter result, never replaced by the store
memoriesToUseStrict(d, characterName) == accessibleMemories(d, characterName)

\* let memoriesToUse = accessibleMemories, or all memories when none is accessible
memoriesToUse(d, characterName) ==
    IF Len(accessibleMemories(d, characterName)) = 0 /\ Len(d.memories) > 0
    THEN d.memories
    ELSE accessibleMemories(d, characterName)

\* what a call leaves in ctx
PovResult(op, name2, d, last) ==
    [op |-> op, name2 |-> name2, last |-> last,
     threw |-> FilterThrows(d, name2),
     used |-> IF FilterThrows(d, name2) THEN <<>> ELSE memoriesToUse(d, name2)]

\* a filter that records what it returned as known to the viewer
PovFilterLearning(op) ==
    /\ settings.enabled
    /\ op = "persist" => settings.automaticMode
    /\ Len(chat) > 0
    /\ ctx' = PovResult(op, ctx.name2, data, [op |-> ctx.op, used |-> ctx.used])
    /\ data' = [data EXCEPT !.character_states =
                   Put(@, ctx.name2,
                       [NewCharacterState(ctx.name2) EXCEPT !.known_events =
                           [i \in 1..Len(ctx'.used) |-> ctx'.used[i].id]])]
    /\ UNCHANGED <<chat, settings, status, clock, cyc, run, pre, done>>

\* The POV filter as retrieveAndInjectContext ("retrieve") and
\* updatePersistentInjection ("persist") run it on the store.
PovFilter(op) ==
    /\ settings.enabled
    /\ op = "persist" => settings.automaticMode
    /\ Len(chat) > 0
    /\ ctx' = PovResult(op, ctx.name2, data, [op |-> ctx.op, used |-> ctx.used])
    /\ UNCHANGED <<chat, settings, data, status, clock, cyc, run, pre, done>>

\* stored events: secret or not, the witnesses a list or (malformed) a text
PovEvents ==
    {[id |-> 0, is_secret |-> Bool(s), witnesses |-> w, characters_involved |-> c] :
        s \in BOOLEAN,
        w \in {List(<<>>), List(<<"Alice">>), Str(<<"Alice">>)},
        c \in {List(<<>>), List(<<"alice", "Bob">>)}}

\* character states: none, or one character knowing one event
PovStates ==
    {EmptyMap} \cup
    {Put(EmptyMap, n, [NewCharacterState(n) EXCEPT !.known_events = <<e>>]) :
        n \in {"Alice", "Bob"}, e \in 1..2}

\* a store of up to MaxPovMem events, ids in store order, and a viewer
InitPov ==
    /\ \E n \in 0..MaxPovMem : \E ms \in [1..n -> PovEvents] :
           \E cs \in PovStates :
               data = [EmptyStore EXCEPT
                          !.memories = [i \in 1..n |-> [ms[i] EXCEPT !.id = i]],
                          !.character_states = cs]
    /\ \E v \in {"Alice", "alice", "Bob"} : ctx = [op |-> "none", name2 |-> v, used |-> <<>>]
    /\ chat = <<[is_system |-> FALSE]>>
    /\ settings \in InitSettings
    /\ status = "ready"
    /\ clock = 0
    /\ cyc = [p \in Procs |-> IdleCycle]
    /\ run = IdleRun
    /\ pre = [p \in Procs |-> NoSnap]
    /\ done = {}

NextPov == PovFilter("retrieve") \/ PovFilter("persist")

SpecPov == InitPov /\ [][NextPov]_vars

\* ------------------------------------------- the relevance selector
\* The score of a memory, in units of 1/HourMs of a point (ageHours is
\* age / HourMs, so every term is a whole number of these units).
Recency(memory, now) == Max(0, RecencyMax * HourMs - (now - memory.created_at))

\* for (const char of activeCharacters): +5 if involved, +3 if a witness
RECURSIVE Involvement(_, _)
Involvement(memory, activeCharacters) ==
    IF activeCharacters = <<>> THEN 0
    ELSE (IF memory.characters_involved.t = "list"
             /\ Head(activeCharacters) \in Range(memory.characters_involved.v)
          THEN InvolvedBonus ELSE 0)
         + (IF memory.witnesses.t = "list"
               /\ Head(activeCharacters) \in Range(memory.witnesses.v)
            THEN WitnessBonus ELSE 0)
         + Involvement(memory, Tail(activeCharacters))

\* const summaryLower = memory.summary?.toLowerCase() || ''
SummaryLower(memory) ==
    IF memory.summary.t = "str"
    THEN [i \in 1..Len(memory.summary.v) |-> Lower(memory.summary.v[i])]
    ELSE <<>>

\* +1 for each word of the context longer than 3 that the summary includes
Keywords(memory, recentContext) ==
    Cardinality({i \in 1..Len(recentContext) :
        /\ WordLen(Lower(recentContext[i])) > MinWordLen
        /\ \E j \in 1..Len(SummaryLower(memory)) :
               Contains(SummaryLower(memory)[j], Lower(recentContext[i]))})

TypeBonus(memory) ==
    IF memory.event_type = Str(<<"revelation">>) THEN RevelationBonus
    ELSE IF memory.event_type = Str(<<"relationship_change">>) THEN RelationshipChangeBonus
    ELSE 0

Score(memory, recentContext, activeCharacters, now) ==
    Recency(memory, now)
    + HourMs * (Involvement(memory, activeCharacters) + Keywords(memory, recentContext)
                + TypeBonus(memory))

\* scored.sort((a, b) => b.score - a.score): a stable sort, by insertion
RECURSIVE InsertScored(_, _)
InsertScored(sorted, x) ==
    IF sorted = <<>> THEN <<x>>
    ELSE IF Head(sorted).score >= x.score
         THEN <<Head(sorted)>> \o InsertScored(Tail(sorted), x)
         ELSE <<x>> \o sorted

RECURSIVE SortScored(_)
SortScored(scored) ==
    IF scored = <<>> THEN <<>>
    ELSE InsertScored(SortScored(SubSeq(scored, 1, Len(scored) - 1)), scored[Len(scored)])

\* s.slice(0, limit): a negative limit counts from the end
SliceTo(s, limit) ==
    IF limit >= 0 THEN SubSeq(s, 1, Min(limit, Len(s)))
    ELSE SubSeq(s, 1, Max(Len(s) + limit, 0))

Scored(memories, recentContext, activeCharacters, now) ==
    [i \in 1..Len(memories) |->
        [memory |-> memories[i],
         score |-> Score(memories[i], recentContext, activeCharacters, now)]]

selectRelevantMemories(memories, recentContext, activeCharacters, limit, now) ==
    LET top == SliceTo(SortScored(Scored(memories, recentContext, activeCharacters, now)),
                       limit)
    IN  [i \in 1..Len(top) |-> top[i].memory]

\* a call of selectRelevantMemories on the inputs held in ctx
Select ==
    /\ ctx' = [ctx EXCEPT !.op = "select",
                   !.last = [op |-> ctx.op, out |-> ctx.out],
                   !.out = selectRelevantMemories(ctx.memories, ctx.recentContext,
                                                 ctx.activeCharacters, ctx.limit, clock)]
    /\ UNCHANGED <<chat, settings, data, status, clock, cyc, run, pre, done>>

\* candidates: old or recent, an action or a revelation, with or without Alice
SelEvents ==
    {[id |-> 0, created_at |-> c, event_type |-> Str(<<ty>>), summary |-> Str(<<"Meeting">>),
      characters_involved |-> inv, witnesses |-> inv] :
        c \in {0, 2 * HourMs}, ty \in {"action", "revelation"},
        inv \in {List(<<>>), List(<<"Alice">>)}}

\* up to MaxSelMem candidates (ids in list order), a context, the active
\* characters and a limit the settings allow, three hours after time 0
InitSelect ==
    /\ \E n \in 0..MaxSelMem : \E ms \in [1..n -> SelEvents] :
       \E rc \in {<<"the", "meet">>, <<"Bob">>, <<"meet", "meet">>} :
       \E ac \in {<<>>, <<"Alice">>} :
       \E limit \in -1..MaxSelMem :
           ctx = [op |-> "none", memories |-> [i \in 1..n |-> [ms[i] EXCEPT !.id = i]],
                  recentContext |-> rc, activeCharacters |-> ac, limit |-> limit,
                  out |-> <<>>, last |-> [op |-> "none", out |-> <<>>]]
    /\ clock = 3 * HourMs
    /\ chat = <<[is_system |-> FALSE]>>
    /\ settings \in InitSettings
    /\ data = EmptyStore
    /\ status = "ready"
    /\ cyc = [p \in Procs |-> IdleCycle]
    /\ run = IdleRun
    /\ pre = [p \in Procs |-> NoSnap]
    /\ done = {}

NextSelect == Select

SpecSelect == InitSelect /\ [][NextSelect]_vars

\* ------------------------------------------- propagation on its own
\* events that differ in their witnesses, their emotional impacts and
\* their relationship impacts: the key with and without white space, a
\* key without an arrow, two keys for one pair, the reverse direction
ImpactEvent(id, witnesses, emotions, entries) ==
    Enrich([RawEvent EXCEPT !.id = Num(id), !.witnesses = List(witnesses),
                            !.emotional_impact = Obj(emotions),
                            !.relationship_impact = Obj(entries)],
           0, <<0>>, 0)

PropEvents ==
    {ImpactEvent(1, <<"Alice">>, << <<"Alice", Str(<<"glad">>)>> >>,
                 << <<(<<"Alice", " ", "->", " ", "Bob">>), Str(<<"Trust", "Increased">>)>> >>),
     ImpactEvent(2, <<"Alice", "Bob", "Alice">>, << <<"Bob", Str(<<"glad">>)>> >>,
                 << <<(<<"Alice", "->", "Bob">>), Str(<<"trust", "decreased">>)>> >>),
     ImpactEvent(3, <<>>, << <<"Alice", Str(<<"sad">>)>>, <<"Carol", Str(<<"sad">>)>> >>,
                 << <<(<<"Alice", " ", "Bob">>), Str(<<"Trust", "increased">>)>> >>),
     ImpactEvent(4, <<"Bob">>, <<>>,
                 << <<(<<"Alice", " ", "->", "Bob">>), Str(<<"tension", "increasing">>)>>,
                    <<(<<"Alice", "->", " ", "Bob">>), Str(<<"tension", "increasing">>)>> >>),
     ImpactEvent(5, <<"Bob">>, <<>>,
                 << <<(<<"Bob", "->", "Alice">>), Str(<<"tension", "decreased">>)>> >>)}

\* updateCharacterStatesFromEvents and updateRelationshipsFromEvents applied
\* to one event, as extractMemories applies them to the events of a batch
Propagate(event) ==
    /\ ctx.n < MaxProp
    /\ data' = [data EXCEPT
                   !.character_states =
                       updateCharacterStatesFromEvents(<<event>>, @, clock).cs,
                   !.relationships = updateRelationshipsFromEvents(<<event>>, @, clock).rels]
    /\ ctx' = [op |-> "propagate", n |-> ctx.n + 1, event |-> event,
               before |-> data.relationships, states |-> data.character_states]
    /\ UNCHANGED <<chat, settings, status, clock, cyc, run, pre, done>>

InitPropagate ==
    /\ ctx = [op |-> "none", n |-> 0, event |-> Undefined, before |-> EmptyMap,
              states |-> EmptyMap]
    /\ data = EmptyStore
    /\ clock = 0
    /\ chat = <<[is_system |-> FALSE]>>
    /\ settings \in InitSettings
    /\ status = "ready"
    /\ cyc = [p \in Procs |-> IdleCycle]
    /\ run = IdleRun
    /\ pre = [p \in Procs |-> NoSnap]
    /\ done = {}

NextPropagate == \E event \in PropEvents : Propagate(event)

SpecPropagate == InitPropagate /\ [][NextPropagate]_vars

\* ------------------------------------------------ the context formatter
\* Texts are measured in characters; a token estimate is a length divided
\* by CharsPerToken, so estimates are compared as lengths with budgets
\* multiplied by CharsPerToken.
TrustDescLen(rel) ==
    IF rel.trust >= HighLevel THEN 10 ELSE IF rel.trust <= LowTrust THEN 9 ELSE 14

TensionDescLen(rel) ==
    IF rel.tension >= HighLevel \/ rel.tension >= SomeTension THEN 2 + 12 ELSE 0

\* `- ${rel.character}: ${rel.type || 'acquaintance'} (${trustDesc}, ${tensionDesc})`
RelLine(rel) ==
    RelLineLen + WordLen(rel.character) + TrustDescLen(rel) + TensionDescLen(rel)

\* `- ${prefix}${memory.summary}`
MemoryLine(memory) ==
    DashLen + (IF Truthy(memory.is_secret) THEN SecretLen ELSE 0) + CharLen(memory.summary.v)

\* the lengths of the lines pushed, in order
FormatLines(memories, relationships, emotionalState, characterName) ==
    <<HeaderLen + WordLen(characterName), 0>>
    \o (IF emotionalState # <<>> /\ emotionalState # <<"neutral">>
        THEN <<EmotionLen + CharLen(emotionalState), 0>> ELSE <<>>)
    \o (IF Len(relationships) > 0
        THEN <<RelationshipsLen>> \o [i \in 1..Len(relationships) |-> RelLine(relationships[i])]
             \o <<0>>
        ELSE <<>>)
    \o (IF Len(memories) > 0
        THEN <<MemoriesLen>> \o [i \in 1..Len(memories) |-> MemoryLine(memories[i])]
        ELSE <<>>)
    \o <<FooterLen + WordLen(characterName)>>

\* lines.join('\n').length
RECURSIVE JoinLen(_)
JoinLen(lines) ==
    IF lines = <<>> THEN 0
    ELSE IF Len(lines) = 1 THEN lines[1]
    ELSE lines[1] + 1 + JoinLen(Tail(lines))

\* (lines.slice(0, 5).join('\n').length + lines.slice(-1).join('\n').length), in characters
Overhead(lines) ==
    JoinLen(SubSeq(lines, 1, Min(OverheadLines, Len(lines)))) + lines[Len(lines)]

\* a truncation that passes over a memory that does not fit and goes on
RECURSIVE TruncatedSkipping(_, _)
TruncatedSkipping(memories, avail) ==
    IF memories = <<>> THEN <<>>
    ELSE LET cost == CharLen(Head(memories).summary.v) + CharsPerToken * MemoryExtraTokens
         IN  IF cost <= avail
             THEN <<Head(memories)>> \o TruncatedSkipping(Tail(memories), avail - cost)
             ELSE TruncatedSkipping(Tail(memories), avail)

\* the memories kept: the longest prefix whose cost (summary.length / 4 + 5
\* each) stays within avail, both in characters
RECURSIVE Truncated(_, _)
Truncated(memories, avail) ==
    IF memories = <<>> THEN <<>>
    ELSE LET cost == CharLen(Head(memories).summary.v) + CharsPerToken * MemoryExtraTokens
         IN  IF cost <= avail
             THEN <<Head(memories)>> \o Truncated(Tail(memories), avail - cost)
             ELSE <<>>

\* result.length of the call in progress
ResultLen ==
    JoinLen(FormatLines(ctx.memories, ctx.relationships, ctx.emotionalState, ctx.name2))

\* retrieveAndInjectContext calls formatContextForInjection with settings.tokenBudget
FormatEnter ==
    /\ ctx.op = "none"
    /\ ctx' = [ctx EXCEPT !.op = "format", !.len0 = ResultLen]
    /\ UNCHANGED <<chat, settings, data, status, clock, cyc, run, pre, done>>

\* estimatedTokens > tokenBudget: the call calls itself with the truncated
\* memories and twice the budget
FormatShrink ==
    /\ ctx.op = "format"
    /\ ResultLen > CharsPerToken * ctx.tokenBudget
    /\ ctx.depth < MaxDepth
    /\ ctx' = [ctx EXCEPT
                  !.memories =
                      Truncated(@, CharsPerToken * ctx.tokenBudget
                                   - Overhead(FormatLines(ctx.memories, ctx.relationships,
                                                          ctx.emotionalState, ctx.name2))),
                  !.tokenBudget = @ * 2,
                  !.depth = @ + 1]
    /\ UNCHANGED <<chat, settings, data, status, clock, cyc, run, pre, done>>

\* otherwise the call returns its text, and so does every caller
FormatReturn ==
    /\ ctx.op = "format"
    /\ ResultLen <= CharsPerToken * ctx.tokenBudget
    /\ ctx' = [ctx EXCEPT !.op = "returned", !.len = ResultLen]
    /\ UNCHANGED <<chat, settings, data, status, clock, cyc, run, pre, done>>

\* memories to format: a short one, a secret one, a long one
FmtEvents ==
    {[id |-> 0, is_secret |-> Bool(FALSE), summary |-> Str(<<"met">>)],
     [id |-> 0, is_secret |-> Bool(TRUE), summary |-> Str(<<"Meeting", "Alice">>)],
     [id |-> 0, is_secret |-> Bool(FALSE),
      summary |-> Str(<<"Meeting", "Alice", "meeting", "Bob", "meeting">>)]}

FmtRelationships ==
    {<<>>,
     <<[character |-> "Bob", trust |-> DefaultTrust, tension |-> DefaultTension]>>,
     <<[character |-> "Bob", trust |-> 8, tension |-> 7],
       [character |-> "Bob", trust |-> 2, tension |-> 4]>>}

\* the budgets the settings panel stores: any integer
FmtBudgets == {-1, 0, 1, 5, 12, 25, 50}

InitFormat ==
    /\ \E n \in 0..MaxFmtMem : \E ms \in [1..n -> FmtEvents] :
       \E rels \in FmtRelationships :
       \E emo \in {<<"neutral">>, <<"glad">>} :
       \E budget \in FmtBudgets :
           ctx = [op |-> "none", name2 |-> "Alice",
                  given |-> [i \in 1..n |-> [ms[i] EXCEPT !.id = i]],
                  memories |-> [i \in 1..n |-> [ms[i] EXCEPT !.id = i]],
                  relationships |-> rels, emotionalState |-> emo,
                  requested |-> budget, tokenBudget |-> budget,
                  depth |-> 0, len0 |-> 0, len |-> 0]
    /\ clock = 0
    /\ chat = <<[is_system |-> FALSE]>>
    /\ settings \in InitSettings
    /\ data = EmptyStore
    /\ status = "ready"
    /\ cyc = [p \in Procs |-> IdleCycle]
    /\ run = IdleRun
    /\ pre = [p \in Procs |-> NoSnap]
    /\ done = {}

NextFormat == FormatEnter \/ FormatShrink \/ FormatReturn

SpecFormat == InitFormat /\ [][NextFormat]_vars

\* --------------------------------------------------- the parser on its own
\* elements of a model output: witnesses and characters_involved omitted,
\* empty or filled
ParseEvents ==
    {[RawEvent EXCEPT !.witnesses = w, !.characters_involved = c] :
        w \in {Undefined, List(<<>>), List(<<"Alice">>)},
        c \in {Undefined, List(<<>>), List(<<"Alice", "Bob">>)}}

\* a single object or an array of up to MaxParse elements, fenced or not
ParseOutputs ==
    {[t |-> "object", v |-> e] : e \in ParseEvents}
    \cup {Array(s) : s \in UNION {[1..n -> ParseEvents] : n \in 0..MaxParse}}

\* parseExtractionResult applied to the text held in ctx
Parse ==
    /\ ctx.op = "none"
    /\ ctx' = [ctx EXCEPT !.op = "parsed",
                          !.events = parseExtractionResult(ctx.text, <<0>>, clock)]
    /\ UNCHANGED <<chat, settings, data, status, clock, cyc, run, pre, done>>

InitParse ==
    /\ \E out \in ParseOutputs :
           \E text \in {[fence |-> out, raw |-> Invalid], [fence |-> NoFence, raw |-> out]} :
               ctx = [op |-> "none", text |-> text, events |-> <<>>]
    /\ clock = 0
    /\ chat = <<[is_system |-> FALSE]>>
    /\ settings \in InitSettings
    /\ data = EmptyStore
    /\ status = "ready"
    /\ cyc = [p \in Procs |-> IdleCycle]
    /\ run = IdleRun
    /\ pre = [p \in Procs |-> NoSnap]
    /\ done = {}

NextParse == Parse

SpecParse == InitParse /\ [][NextParse]_vars

\* ------------------------------------- per-chat settings and deletion
\* defaultPerChatSettings
DefaultPerChatSettings == [cardType |-> "rp", nameList |-> <<>>]

\* the store with the per-chat settings savePerChatSettings writes into
WithPerChatSettings(d, perChat) ==
    [k \in DOMAIN d \cup {"per_chat_settings"} |->
        IF k = "per_chat_settings" THEN perChat ELSE d[k]]

HasPerChatSettings(d) == "per_chat_settings" \in DOMAIN d

\* Object.prototype.toString.call(defaultPerChatSettings[setting])
DefaultPerChatType(setting) ==
    CASE setting = "cardType" -> "str"
      [] setting = "nameList" -> "list"
      [] OTHER -> "undefined"

\* savePerChatSettings(setting, value): data[setting] = value when the value
\* has the type of the default; without a per_chat_settings object the
\* assignment throws and nothing is written
savePerChatSettings(d, setting, value) ==
    IF HasPerChatSettings(d) /\ value.t = DefaultPerChatType(setting)
    THEN [d EXCEPT !.per_chat_settings =
             [k \in DOMAIN @ \cup {setting} |-> IF k = setting THEN value.v ELSE @[k]]]
    ELSE d

\* the card type select
SetCardType(val) ==
    /\ HasPerChatSettings(data)
    /\ data' = savePerChatSettings(data, "cardType", [t |-> "str", v |-> val])
    /\ ctx' = [ctx EXCEPT !.op = "set", !.setting = "cardType", !.value = [v |-> val]]
    /\ UNCHANGED <<chat, settings, status, clock, cyc, run, pre, done>>

\* addNameFromInput
AddName(value) ==
    /\ HasPerChatSettings(data)
    /\ Len(data.per_chat_settings.nameList) < MaxNames
    /\ data' = savePerChatSettings(data, "nameList",
                                   List(Append(data.per_chat_settings.nameList, value)))
    /\ ctx' = [ctx EXCEPT !.op = "set", !.setting = "nameList",
                          !.value = [v |-> Append(data.per_chat_settings.nameList, value)]]
    /\ UNCHANGED <<chat, settings, status, clock, cyc, run, pre, done>>

\* the canonical date tracking toggle
SetCanonicalDateTracking(val) ==
    /\ HasPerChatSettings(data)
    /\ data' = savePerChatSettings(data, "canonicalDateTracking", Bool(val))
    /\ ctx' = [ctx EXCEPT !.op = "set", !.setting = "canonicalDateTracking",
                          !.value = [v |-> val]]
    /\ UNCHANGED <<chat, settings, status, clock, cyc, run, pre, done>>

\* deleteCurrentChatData: after confirm(), delete chatMetadata[METADATA_KEY];
\* refreshAllUI then has getOpenVaultData create the store anew
deleteCurrentChatData(confirmed) ==
    /\ data' = IF confirmed THEN EmptyStore ELSE data
    /\ ctx' = [op |-> IF confirmed THEN "delete" ELSE "cancel", before |-> data,
               setting |-> "none", value |-> [v |-> FALSE]]
    /\ UNCHANGED <<chat, settings, status, clock, cyc, run, pre, done>>

\* a chat with default per-chat settings, with or without extracted memories
InitDelete ==
    /\ \E S \in {{}, {0}} : data = WithPerChatSettings(PlanStore(S, 1), DefaultPerChatSettings)
    /\ ctx = [op |-> "none", before |-> EmptyStore, setting |-> "none",
              value |-> [v |-> FALSE]]
    /\ clock = 0
    /\ chat = <<[is_system |-> FALSE]>>
    /\ settings \in InitSettings
    /\ status = "ready"
    /\ cyc = [p \in Procs |-> IdleCycle]
    /\ run = IdleRun
    /\ pre = [p \in Procs |-> NoSnap]
    /\ done = {}

NextDelete ==
    \/ \E val \in {"rp", "rpg"} : SetCardType(val)
    \/ \E value \in {"Alice", "Bob"} : AddName(value)
    \/ \E val \in BOOLEAN : SetCanonicalDateTracking(val)
    \/ \E confirmed \in BOOLEAN : deleteCurrentChatData(confirmed)

SpecDelete == InitDelete /\ [][NextDelete]_vars

\* ------------------------------------------------------------ claims
\* C1: a cycle that fails (no profile, the model call throws or returns
\* nothing, a later step or the save throws) throws to its caller, the
\* status is 'error' and memories, character_states, relationships and
\* last_processed_message_id are as they were when the cycle started.
C1_FailedCycleChangesNothing ==
    \A p \in Procs :
        cyc[p].ver = "mod" /\ cyc[p].pc = "threw" /\ pre[p].t = "snap" =>
            status = "error" /\ Core(data) = pre[p].v

\* C2: a cycle whose response parses to an empty event list returns with
\* events_created = 0 and last_processed_message_id advanced to the
\* maximum of the marker and the largest turn id of the batch.
C2_NoEventsAdvancesMarker ==
    \A p \in Procs :
        cyc[p].ver = "mod" /\ cyc[p].pc = "returned" /\ cyc[p].got = "json"
                /\ cyc[p].n = 0 /\ pre[p].t = "snap" =>
            data.last_processed_message_id =
                Max(pre[p].v.last_processed_message_id, SeqMax(cyc[p].ids))

\* C3: for a model output that is not parseable JSON the parser yields no
\* events and the cycle returns normally with status 'ready'; memories,
\* character_states, relationships and last_processed_message_id are as
\* they were before the cycle.
C3_UnparseableIsNoEvents ==
    /\ \A ids \in {<<>>, <<0>>, <<1, 2>>} :
           parseExtractionResult(RNotJson.text, ids, clock) = <<>>
    /\ \A p \in Procs :
           cyc[p].got = "notjson" =>
               /\ cyc[p].pc = "returned" /\ cyc[p].n = 0
               /\ status = "ready"
               /\ pre[p].t = "snap" /\ Core(data) = pre[p].v

C3_Witness ==
    /\ cyc["ui"].got = "notjson" /\ cyc["ui"].ver = "mod"
    /\ data.memories # <<>>
    /\ pre["ui"].t = "snap"

\* the step of a cycle in which events are stored
C4_Stores(p) ==
    cyc[p].pc = "llm" /\ cyc'[p].pc = "save" /\ Len(data'.memories) > Len(data.memories)

\* C4 as stated: last_processed_message_id never decreases across
\* extraction cycles and backfill runs, and after a cycle that creates an
\* event it is max(previous value, largest turn id of the batch).
C4_MarkerNeverDecreases ==
    [][/\ data'.last_processed_message_id >= data.last_processed_message_id
       /\ \A p \in Procs :
              C4_Stores(p) =>
                  data'.last_processed_message_id =
                      Max(data.last_processed_message_id, SeqMax(cyc[p].ids))]_vars

\* C4, amended: last_processed_message_id never decreases across extraction
\* cycles and runs of the modular backfill, and after a cycle that creates
\* an event it is max(previous value, largest turn id of the batch); the
\* backfill of index.js resets it to -1 when it starts.
C4_MarkerHighWaterMark ==
    [][/\ \/ data'.last_processed_message_id >= data.last_processed_message_id
          \/ /\ \E profile \in BOOLEAN : BaseBackfillStart(profile)
             /\ data'.last_processed_message_id = NoMarker
       /\ \A p \in Procs :
              C4_Stores(p) =>
                  data'.last_processed_message_id =
                      Max(data.last_processed_message_id, SeqMax(cyc[p].ids))]_vars

C4_Witness ==
    /\ cyc["bf"].pc = "save" /\ cyc["bf"].ver = "mod"
    /\ data.last_processed_message_id > SeqMax(cyc["bf"].ids)

\* the batch indices of the calls of a run, in the order of the calls
C5_Calls == SelectSeq(run.log, LAMBDA e : e.e = "call")

\* what the run has appended to extracted_batches
C5_Added ==
    SubSeq(data.extracted_batches, Len(run.before) + 1, Len(data.extracted_batches))

\* C5: in a backfill run of k batches of which any throw, every batch
\* 0..k-1 is attempted once, in index order; the indices of the batches
\* that did not throw, and no others, are added to extracted_batches, none
\* twice; the reported total is the sum of events_created over the batches
\* that did not throw.
C5_FailedBatchesAreIsolated ==
    run.ver = "mod" /\ run.pc \in {"final", "report"} =>
        /\ Len(C5_Calls) = run.k
        /\ \A j \in 1..run.k : C5_Calls[j].i = j - 1
        /\ run.ok \cup run.failed = 0..(run.k - 1)
        /\ run.ok \cap run.failed = {}
        /\ Len(data.extracted_batches) >= Len(run.before)
        /\ SubSeq(data.extracted_batches, 1, Len(run.before)) = run.before
        /\ Range(C5_Added) = run.ok \ Range(run.before)
        /\ Cardinality(Range(data.extracted_batches)) = Len(data.extracted_batches)
        /\ run.totalEvents = run.sum
        /\ run.pc = "report" => run.reported = run.sum

C5_Witness ==
    /\ run.pc = "report" /\ run.ver = "mod"
    /\ run.failed # {} /\ run.ok # {}
    /\ run.sum >= 1
    /\ run.before # <<>>

\* C9: between two consecutive batch calls of a backfill run there is a wait
\* of ceil(60000 / backfillMaxRPM) ms, whether the earlier batch succeeded
\* or failed; there is no wait after the last batch.
C9_WaitBetweenBatches ==
    run.ver = "mod" /\ run.pc # "idle" =>
        /\ \A j \in 1..Len(run.log) :
               /\ run.log[j].e = "call" /\ j < Len(run.log) =>
                      run.log[j + 1] = Wait(DelayMs)
               /\ run.log[j].e = "wait" => j > 1 /\ run.log[j - 1].e = "call"
        /\ run.pc \in {"final", "report"} => run.log[Len(run.log)].e = "call"

\* C10: a backfill run on an unchanged chat after an earlier run submits to
\* the model no turn of a batch that returned in the earlier run, whether
\* that batch found events or none.
C10_NoTurnSubmittedAgain ==
    cyc["bf"].pc = "llm" => Range(cyc["bf"].ids) \cap done = {}

\* the turns of the chat no stored memory covers, when a backfill looks
Uncovered == UnextractedIds(Len(chat), AlreadyExtractedIds(data.memories))

\* C6: no batch of a backfill run holds one of the N most recent turn ids
\* of the chat, N the configured batch size, whatever the chat and the
\* turns already extracted.
C6_RecentTurnsNotBatched ==
    run.pc # "idle" =>
        \A i \in 0..(run.k - 1) :
            \A id \in Range(Batch(run.ids, i, run.size)) : id < Len(chat) - run.size

C6_Witness ==
    /\ run.pc = "cycle" /\ cyc["bf"].pc = "llm"
    /\ run.k >= 2 /\ run.size >= 2
    /\ AlreadyExtractedIds(data.memories) # {}

\* the ascending list: all turn ids, minus the extracted ones, minus the N
\* most recent turn ids of the chat
C7_Eligible(N) ==
    SelectSeq(ChatIds(Len(chat)),
              LAMBDA id : id \notin AlreadyExtractedIds(data.memories) /\ id < Len(chat) - N)

\* C7: the turn ids a backfill run partitions into batches are the largest
\* prefix, of a length that is a multiple of N, of the ascending list of
\* the chat's turn ids without the extracted ones and without the N most
\* recent ones of the chat.
C7_PlanIsEligiblePrefix ==
    run.pc # "idle" =>
        run.ids = SubSeq(C7_Eligible(run.size), 1,
                         (Len(C7_Eligible(run.size)) \div run.size) * run.size)

\* C8: with U uncovered turns and batch size N a backfill run forms
\* floor(max(0, U - N) / N) batches of N uncovered ids each, disjoint and
\* ascending; fewer than N eligible ids remain and are in no batch
\* (U = 23, N = 5: 3 batches, 15 turns, 3 deferred).
C8_CompleteBatchesOnly ==
    /\ run.pc # "idle" =>
          LET N == run.size
              U == Len(Uncovered)
              eligible == SubSeq(Uncovered, 1, Max(0, U - N))
          IN  /\ run.k = Max(0, U - N) \div N
              /\ Len(run.ids) = run.k * N
              /\ \A i \in 0..(run.k - 1) :
                     /\ Len(Batch(run.ids, i, N)) = N
                     /\ Range(Batch(run.ids, i, N)) \subseteq Range(Uncovered)
              /\ \A a, b \in 1..Len(run.ids) : a < b => run.ids[a] < run.ids[b]
              /\ Len(eligible) - run.k * N < N
              /\ \A j \in (run.k * N + 1)..Len(eligible) : eligible[j] \notin Range(run.ids)
    /\ BackfillPlan(23, {}, 5).k = 3
    /\ Len(BackfillPlan(23, {}, 5).ids) = 15

C8_Witness ==
    /\ run.pc = "cycle"
    /\ run.k >= 2
    /\ Len(Uncovered) - run.size - run.k * run.size >= 1

\* ---- the POV filter (SpecPov)
\* the viewer is a witness of m, names compared without case
ViewerWitness(m) ==
    m.witnesses.t = "list" /\ \E w \in Range(m.witnesses.v) : Lower(w) = Lower(ctx.name2)

\* the id of m is in the known_events of the viewer's character state
ViewerKnows(m) ==
    /\ ctx.name2 \in DOMAIN data.character_states
    /\ m.id \in Range(data.character_states[ctx.name2].known_events)

ViewerInvolved(m) ==
    /\ m.characters_involved.t = "list"
    /\ \E c \in Range(m.characters_involved.v) : Lower(c) = Lower(ctx.name2)

\* the visibility rule (a), (b), (c)
Visible(m) ==
    \/ ViewerWitness(m)
    \/ m.is_secret = Bool(FALSE) /\ ViewerInvolved(m)
    \/ ViewerKnows(m)

AnyVisible == \E i \in 1..Len(data.memories) : Visible(data.memories[i])

\* C11 as stated: a secret event is in the memory set used for retrieval
\* only if the viewer is one of its witnesses or knows its id.
C11_SecretOnlyToWitnessOrKnown ==
    ctx.op # "none" =>
        \A i \in 1..Len(ctx.used) :
            ctx.used[i].is_secret = Bool(TRUE) =>
                ViewerWitness(ctx.used[i]) \/ ViewerKnows(ctx.used[i])

\* C11: a secret event is in the memory set used for retrieval only if the
\* viewer is one of its witnesses or knows its id, or if no event of the
\* store is visible to the viewer (then the whole store is used); as long
\* as one event is visible, characters_involved never admits a secret.
C11_SecretOnlyToWitnessOrKnownUnlessFallback ==
    ctx.op # "none" /\ AnyVisible =>
        \A i \in 1..Len(ctx.used) :
            ctx.used[i].is_secret = Bool(TRUE) =>
                ViewerWitness(ctx.used[i]) \/ ViewerKnows(ctx.used[i])

\* the filter kept an event and dropped a secret one the viewer is only
\* involved in
C11_Witness ==
    /\ ctx.op # "none" /\ ~ctx.threw /\ Len(ctx.used) > 0
    /\ \E i \in 1..Len(data.memories) :
           /\ data.memories[i].is_secret = Bool(TRUE)
           /\ ViewerInvolved(data.memories[i])
           /\ ~ViewerWitness(data.memories[i]) /\ ~ViewerKnows(data.memories[i])
           /\ data.memories[i] \notin Range(ctx.used)

C14_ScoreOf(m) == Score(m, ctx.recentContext, ctx.activeCharacters, clock)

\* the result is made of distinct candidates, by non-increasing score,
\* equal scores in candidate order, and no omitted candidate scores higher
C14_Ranked ==
    /\ \A i \in 1..Len(ctx.out) : ctx.out[i] \in Range(ctx.memories)
    /\ \A i, j \in 1..Len(ctx.out) :
           i < j => /\ ctx.out[i].id # ctx.out[j].id
                    /\ C14_ScoreOf(ctx.out[i]) >= C14_ScoreOf(ctx.out[j])
                    /\ C14_ScoreOf(ctx.out[i]) = C14_ScoreOf(ctx.out[j])
                           => ctx.out[i].id < ctx.out[j].id
    /\ \A k \in 1..Len(ctx.memories) :
           ctx.memories[k] \notin Range(ctx.out) =>
               \A i \in 1..Len(ctx.out) :
                   C14_ScoreOf(ctx.memories[k]) <= C14_ScoreOf(ctx.out[i])
    /\ ctx.last.op = "select" => ctx.out = ctx.last.out

\* C14: selectRelevantMemories returns at most limit events, distinct
\* candidates ordered by non-increasing score with ties in candidate order,
\* omits no candidate that scores higher than a returned one, and returns
\* the same result for the same inputs and clock.
C14_TopLimitByScore ==
    ctx.op = "select" => Len(ctx.out) <= ctx.limit /\ C14_Ranked

\* the same for the limits that are not negative
C14_TopLimitByScoreFromZero ==
    ctx.op = "select" => (ctx.limit >= 0 => Len(ctx.out) <= ctx.limit) /\ C14_Ranked

\* ---- propagation (SpecPropagate)
\* the record of a pair before the last propagation (a new one if absent)
BeforeRel(key) ==
    IF key \in DOMAIN ctx.before THEN ctx.before[key]
    ELSE [trust_level |-> DefaultTrust, tension_level |-> DefaultTension, history |-> <<>>]

Dist(a, b) == IF a >= b THEN a - b ELSE b - a

\* the entries of the event propagated last
LastEntries == Entries(ctx.event.relationship_impact)

\* C15: trust_level and tension_level of every Relationship are integers
\* from 0 to 10 after any number of propagations, and a propagation changes
\* each of them by at most 1 for each relationship_impact entry of its event.
C15_LevelsClamped ==
    \A key \in DOMAIN data.relationships :
        LET r == data.relationships[key]
        IN  /\ r.trust_level \in 0..10
            /\ r.tension_level \in 0..10
            /\ ctx.op = "propagate" =>
                   /\ Dist(r.trust_level, BeforeRel(key).trust_level) <= Len(LastEntries)
                   /\ Dist(r.tension_level, BeforeRel(key).tension_level) <= Len(LastEntries)
                   /\ Len(LastEntries) = 1 =>
                          /\ Dist(r.trust_level, BeforeRel(key).trust_level) <= 1
                          /\ Dist(r.tension_level, BeforeRel(key).tension_level) <= 1

\* a trust increase was propagated on a record whose trust_level was 10
C15_Witness ==
    /\ ctx.op = "propagate" /\ ctx.event.id = 1
    /\ <<"Alice", "<->", "Bob">> \in DOMAIN ctx.before
    /\ ctx.before[<<"Alice", "<->", "Bob">>].trust_level = 10
    /\ data.relationships[<<"Alice", "<->", "Bob">>].trust_level = 10

\* the names around the arrow of a key "A, white space, ->, white space, B"
ArrowKeys(A, B) ==
    {<<A, "->", B>>, <<A, " ", "->", B>>, <<A, "->", " ", B>>, <<A, " ", "->", " ", B>>}

\* C16: an entry whose key is A, optional white space, '->', optional
\* white space, B is applied to the record 'A<->B' and to no other; an
\* entry whose key has no arrow changes nothing.
C16_ArrowKeysAddressPair ==
    ctx.op = "propagate" =>
        /\ \A A, B \in {"Alice", "Bob"} :
               (\A i \in 1..Len(LastEntries) : LastEntries[i][1] \in ArrowKeys(A, B))
               => /\ <<A, "<->", B>> \in DOMAIN data.relationships
                  /\ DOMAIN data.relationships = DOMAIN ctx.before \cup {<<A, "<->", B>>}
                  /\ Len(data.relationships[<<A, "<->", B>>].history)
                         = Len(BeforeRel(<<A, "<->", B>>).history) + Len(LastEntries)
                  /\ \A key \in DOMAIN ctx.before :
                         key # <<A, "<->", B>> => data.relationships[key] = ctx.before[key]
        /\ (\A i \in 1..Len(LastEntries) : "->" \notin Range(LastEntries[i][1]))
               => data.relationships = ctx.before

\* 'Alice->Bob' was applied to the record 'Alice -> Bob' had created, and
\* a key without an arrow was propagated
C16_Witness ==
    /\ ctx.op = "propagate" /\ ctx.event.id = 3
    /\ DOMAIN data.relationships = {<<"Alice", "<->", "Bob">>}
    /\ \E i, j \in 1..Len(data.relationships[<<"Alice", "<->", "Bob">>].history) :
           /\ data.relationships[<<"Alice", "<->", "Bob">>].history[i].event_id = 1
           /\ data.relationships[<<"Alice", "<->", "Bob">>].history[j].event_id = 2

\* ---- the context formatter (SpecFormat)
\* the number of doublings after which a budget of one token holds a text
\* of len characters
RECURSIVE Doublings(_, _)
Doublings(len, tokens) ==
    IF len <= CharsPerToken * tokens THEN 0 ELSE 1 + Doublings(len, 2 * tokens)

\* C17: formatContextForInjection returns after a bounded number of
\* recursive calls, whatever the budget: never more calls than the
\* doublings that take a budget of one token to the size of the first text.
C17_RecursionBounded ==
    ctx.op # "none" => ctx.depth <= Doublings(ctx.len0, 1)

\* the same for the budgets of at least one token
C17_RecursionBoundedPositive ==
    ctx.op # "none" /\ ctx.requested >= 1 => ctx.depth <= Doublings(ctx.len0, 1)

\* C18: the estimate of the returned text (characters / 4) is at most twice
\* the budget the caller requested.
C18_WithinTwiceBudget ==
    ctx.op = "returned" => ctx.len <= 2 * CharsPerToken * ctx.requested

\* the estimate of the returned text is within the budget of the call that
\* returned it: the requested one doubled once for each recursive call
C18_WithinLastBudget ==
    ctx.op = "returned" => ctx.len <= CharsPerToken * ctx.tokenBudget

\* ---- the parser (SpecParse)
\* the elements of the parsed output, in order
ParsedElements ==
    IF Cleaned(ctx.text).t = "array" THEN Cleaned(ctx.text).v ELSE <<Cleaned(ctx.text).v>>

\* C19: after normalization the witnesses of an event are empty only if its
\* characters_involved are empty too, whether the output gave witnesses or not.
C19_WitnessesFallBack ==
    ctx.op = "parsed" =>
        \A i \in 1..Len(ctx.events) :
            ctx.events[i].witnesses = List(<<>>)
                => ctx.events[i].characters_involved = List(<<>>)

\* the same for the events whose output gave no witnesses field
C19_OmittedWitnessesFallBack ==
    ctx.op = "parsed" =>
        /\ Len(ctx.events) = Len(ParsedElements)
        /\ \A i \in 1..Len(ctx.events) :
               ParsedElements[i].witnesses = Undefined
                   => ctx.events[i].witnesses = ctx.events[i].characters_involved

\* ---- deletion (SpecDelete)
\* C20: deleteCurrentChatData removes the memories, the character states
\* and the relationships and leaves the per-chat settings as they were.
C20_DeleteKeepsPerChatSettings ==
    ctx.op = "delete" =>
        /\ data.memories = <<>>
        /\ data.character_states = EmptyMap
        /\ data.relationships = EmptyMap
        /\ HasPerChatSettings(data)
        /\ data.per_chat_settings = ctx.before.per_chat_settings

\* the part of it about the extracted data
C20_DeleteRemovesExtracted ==
    ctx.op = "delete" =>
        /\ data.memories = <<>>
        /\ data.character_states = EmptyMap
        /\ data.relationships = EmptyMap

\* ---- per-chat settings (SpecDelete)
\* the setting changed last is stored with the value given
StoredAsSet ==
    /\ HasPerChatSettings(data)
    /\ ctx.setting \in DOMAIN data.per_chat_settings
    /\ [v |-> data.per_chat_settings[ctx.setting]] = ctx.value

\* C21: after a per-chat setting is changed in the settings panel (the card
\* type, the canonical date tracking toggle, the name list), per_chat_settings
\* holds the value chosen.
C21_PerChatSettingStored ==
    ctx.op = "set" => StoredAsSet

\* the same for the card type and the name list
C21_CardTypeAndNamesStored ==
    ctx.op = "set" /\ ctx.setting \in {"cardType", "nameList"} => StoredAsSet

\* ---- status of an extraction cycle (SpecCycle)
InFlight(c) == c.pc \in {"llm", "save"}
Finished(c) == c.pc \in {"returned", "threw"}

\* C22: a cycle that passes its preconditions has status 'extracting' from
\* its start to its end, ends with 'ready' (return) or 'error' (throw) and
\* never leaves 'extracting' behind; a cycle that returns early leaves
\* status as it was.
C22_StatusFollowsCycle ==
    [][\A p \in Procs :
          /\ InFlight(cyc'[p]) => status' = "extracting"
          /\ cyc'[p].pc = "returned" /\ cyc[p].pc # "returned" => status' = "ready"
          /\ cyc'[p].pc = "threw" /\ cyc[p].pc # "threw" => status' = "error"
          /\ Finished(cyc'[p]) => status' # "extracting"
          /\ cyc'[p].pc = "skipped" /\ cyc[p].pc # "skipped" => status' = status]_vars

\* a cycle without events has returned with status 'ready' after an
\* earlier cycle stored events
C22_Witness ==
    /\ cyc["ui"].pc = "returned" /\ cyc["ui"].n = 0
    /\ status = "ready"
    /\ Len(data.memories) > 0

\* ---- overlapping cycles (SpecOverlap)
\* C23: at most one extraction cycle is between its start and its outcome
\* at any time.
C23_OneCycleInFlight ==
    Cardinality({p \in Procs : InFlight(cyc[p])}) <= 1

\* ---- character states and relationships (SpecPropagate)
NoDuplicates(s) == \A i, j \in 1..Len(s) : s[i] = s[j] => i = j

\* C24: no known_events holds an event id twice, and every witness of the
\* event propagated last has a CharacterState that knows its id.
C24_KnownEventsAreSets ==
    /\ \A name \in DOMAIN data.character_states :
           NoDuplicates(data.character_states[name].known_events)
    /\ ctx.op = "propagate" =>
           \A w \in Range(ctx.event.witnesses.v) :
               /\ w \in DOMAIN data.character_states
               /\ ctx.event.id \in Range(data.character_states[w].known_events)

\* an event with a witness named twice was propagated a second time
C24_Witness ==
    /\ ctx.op = "propagate" /\ ctx.event.id = 2
    /\ "Bob" \in DOMAIN ctx.states
    /\ 2 \in Range(ctx.states["Bob"].known_events)

\* C25: at most one Relationship record exists for a pair of characters,
\* whichever direction the impact keys name them in.
C25_OneRecordPerPair ==
    \A A, B \in {"Alice", "Bob"} :
        A # B => ~(<<A, "<->", B>> \in DOMAIN data.relationships
                   /\ <<B, "<->", A>> \in DOMAIN data.relationships)

\* the entries of the event propagated last whose key parses to this pair
EntriesFor(key) ==
    SelectSeq(LastEntries,
              LAMBDA e : KeyMatches(e[1]) /\ PairKey(KeyCharA(e[1]), KeyCharB(e[1])) = key)

\* C26: a propagation appends to the history of a Relationship one entry
\* {event_id, impact, timestamp} for each entry of the event whose key
\* parses to it, whether or not a level changed, and keeps what the
\* history held before as a prefix.
C26_HistoryAppendOnly ==
    ctx.op = "propagate" =>
        /\ DOMAIN ctx.before \subseteq DOMAIN data.relationships
        /\ \A key \in DOMAIN data.relationships :
               data.relationships[key].history
                   = BeforeRel(key).history
                     \o [i \in 1..Len(EntriesFor(key)) |->
                            [event_id |-> ctx.event.id, impact |-> EntriesFor(key)[i][2],
                             timestamp |-> clock]]

\* tension at 0 was to decrease again: the levels stay, the history grows
C26_Witness ==
    /\ ctx.op = "propagate" /\ ctx.event.id = 5
    /\ <<"Bob", "<->", "Alice">> \in DOMAIN ctx.before
    /\ data.relationships[<<"Bob", "<->", "Alice">>].tension_level
           = ctx.before[<<"Bob", "<->", "Alice">>].tension_level
    /\ Len(data.relationships[<<"Bob", "<->", "Alice">>].history) = 2

\* the state of a character before the last propagation (a new one if absent)
BeforeState(name) ==
    IF name \in DOMAIN ctx.states THEN ctx.states[name] ELSE NewCharacterState(name)

LastEmotions == Entries(ctx.event.emotional_impact)

\* C27: a propagation sets current_emotion of each character named in
\* emotional_impact to the text given, creating the state with the defaults
\* if absent, and leaves every emotion_intensity as it was; the states of
\* characters that are neither targets nor witnesses are unchanged.
C27_EmotionSetIntensityKept ==
    ctx.op = "propagate" =>
        /\ \A i \in 1..Len(LastEmotions) :
               /\ LastEmotions[i][1] \in DOMAIN data.character_states
               /\ data.character_states[LastEmotions[i][1]].current_emotion = LastEmotions[i][2]
               /\ data.character_states[LastEmotions[i][1]].known_events
                      = Know(BeforeState(LastEmotions[i][1]).known_events, ctx.event.id)
                  \/ /\ LastEmotions[i][1] \notin Range(ctx.event.witnesses.v)
                     /\ data.character_states[LastEmotions[i][1]].known_events
                            = BeforeState(LastEmotions[i][1]).known_events
        /\ \A name \in DOMAIN data.character_states :
               /\ data.character_states[name].emotion_intensity
                      = BeforeState(name).emotion_intensity
               /\ data.character_states[name].emotion_intensity
                      = IF name \in DOMAIN ctx.states THEN ctx.states[name].emotion_intensity
                        ELSE DefaultIntensity
               /\ (name \notin Range(ctx.event.witnesses.v)
                   /\ \A i \in 1..Len(LastEmotions) : LastEmotions[i][1] # name)
                      => name \in DOMAIN ctx.states
                         /\ data.character_states[name] = ctx.states[name]

\* Carol's state was created by an emotional impact, Bob's was left alone
C27_Witness ==
    /\ ctx.op = "propagate" /\ ctx.event.id = 3
    /\ "Carol" \notin DOMAIN ctx.states
    /\ data.character_states["Carol"].current_emotion = Str(<<"sad">>)
    /\ data.character_states["Carol"].known_events = <<>>
    /\ "Bob" \in DOMAIN ctx.states

\* ---- keyword term of the relevance score (SpecSelect)
\* the distinct words of the lower-cased context that are longer than
\* MinWordLen and occur in the lower-cased summary
DistinctKeywords(memory, recentContext) ==
    {Lower(recentContext[i]) : i \in
        {k \in 1..Len(recentContext) :
            /\ WordLen(Lower(recentContext[k])) > MinWordLen
            /\ \E j \in 1..Len(SummaryLower(memory)) :
                   Contains(SummaryLower(memory)[j], Lower(recentContext[k]))}}

\* C28: the keyword term of every memory scored by a selection is the
\* number of distinct context words longer than 3 characters that occur in
\* its summary; a word the context repeats counts once.
C28_KeywordsCountDistinct ==
    ctx.op = "select" =>
        \A i \in 1..Len(ctx.memories) :
            Keywords(ctx.memories[i], ctx.recentContext)
                = Cardinality(DistinctKeywords(ctx.memories[i], ctx.recentContext))

\* ---- truncation in the formatter (SpecFormat)
\* the cost of the first k memories given, in characters
RECURSIVE GivenCost(_)
GivenCost(k) ==
    IF k = 0 THEN 0
    ELSE GivenCost(k - 1) + CharLen(ctx.given[k].summary.v) + CharsPerToken * MemoryExtraTokens

\* what the first call had for the memories: its budget minus its overhead
FirstAvail ==
    CharsPerToken * ctx.requested
    - Overhead(FormatLines(ctx.given, ctx.relationships, ctx.emotionalState, ctx.name2))

\* C29: when formatContextForInjection had to shrink, the memories of the
\* text it returns are a prefix of the list it was given, and the longest
\* one whose cost (summary length / 4 + 5 each) is within the budget minus
\* the overhead.
C29_TruncationIsGreedyPrefix ==
    ctx.op = "returned" /\ ctx.depth >= 1 =>
        /\ Len(ctx.memories) <= Len(ctx.given)
        /\ ctx.memories = SubSeq(ctx.given, 1, Len(ctx.memories))
        /\ Len(ctx.memories) > 0 => GivenCost(Len(ctx.memories)) <= FirstAvail
        /\ Len(ctx.memories) < Len(ctx.given) => GivenCost(Len(ctx.memories) + 1) > FirstAvail

\* a long memory in the middle was cut off together with the short one after it
C29_Witness ==
    /\ ctx.op = "returned" /\ ctx.depth >= 1
    /\ Len(ctx.given) = 3 /\ Len(ctx.memories) = 1
    /\ Len(ctx.given[2].summary.v) = 5
    /\ ctx.given[3].summary = Str(<<"met">>)

\* ---- the end of a backfill run (SpecFinish)
\* a run is between its first batch and its report
Running == run.pc \in {"cycle", "delay", "final"}

C31_IdsUniqueAndFixed ==
    [][/\ \A i, j \in 1..Len(data'.memories) :
              data'.memories[i].id = data'.memories[j].id => i = j
       /\ \A i \in 1..Len(data.memories) : \A j \in 1..Len(data'.memories) :
              data'.memories[j].id = data.memories[i].id =>
                  /\ data'.memories[j].message_ids = data.memories[i].message_ids
                  /\ data'.memories[j].created_at = data.memories[i].created_at]_vars

StoredIds == {data.memories[i].id : i \in 1..Len(data.memories)}

\* C32: every id in a character's known_events and every event_id in a
\* Relationship's history is the id of an event in the memory store.
C32_DerivedIdsAreStored ==
    /\ \A name \in DOMAIN data.character_states :
           Range(data.character_states[name].known_events) \subseteq StoredIds
    /\ \A key \in DOMAIN data.relationships :
           \A i \in 1..Len(data.relationships[key].history) :
               data.relationships[key].history[i].event_id \in StoredIds

\* C33: an event id is in a character's known_events only if the character
\* is one of the witnesses of every stored event with that id, so that
\* knowing an event never shows an event the character did not witness.
C33_KnownOnlyIfWitness ==
    \A name \in DOMAIN data.character_states :
        \A i \in 1..Len(data.memories) :
            data.memories[i].id \in Range(data.character_states[name].known_events)
                => name \in Range(data.memories[i].witnesses.v)

\* ---- automatic turn selection (Spec)
\* the extract button has started a cycle: extractMemories() without ids
AutoStarts == cyc["ui"].pc = "idle" /\ cyc'["ui"].pc # "idle" /\ chat' = chat

\* C34: extractMemories without explicit ids selects only non-system turns
\* whose id is greater than last_processed_message_id, at most
\* messagesPerExtraction of them, for every value of the marker, 0 included.
C34_AutoSelectsAboveMarker ==
    [][AutoStarts =>
          /\ \A id \in Range(cyc'["ui"].ids) :
                 ~IsSystem(chat, id) /\ id > data.last_processed_message_id
          /\ cyc'["ui"].ver = "mod" => Len(cyc'["ui"].ids) <= MessageCount]_vars

\* the non-system turns of the chat, and those above the marker
NonSystemIds == SelectSeq(ChatIds(Len(chat)), LAMBDA id : ~IsSystem(chat, id))
PendingIds == SelectSeq(NonSystemIds, LAMBDA id : id > data.last_processed_message_id)

\* the number of turns an automatic selection takes
AutoCount(ver) == IF ver = "mod" THEN MessageCount ELSE BaseAutoCount

\* C35: no pending turn is passed over by an automatic cycle: every
\* non-system turn above the marker that is older than a selected turn is
\* selected too, so that repeated successful cycles include every pending
\* turn in some batch.
C35_NoPendingTurnPassedOver ==
    [][AutoStarts =>
          \A t \in Range(PendingIds) :
              (\E s \in Range(cyc'["ui"].ids) : t < s) => t \in Range(cyc'["ui"].ids)]_vars

\* C35 as the code has it: an automatic cycle selects the most recent
\* non-system turns, at most the configured count of them: all the pending
\* turns when they are fewer than the count, else exactly the count, the
\* older pending turns being left out.
C35_AutoSelectsMostRecent ==
    [][AutoStarts =>
          LET sel == cyc'["ui"].ids
              count == AutoCount(cyc'["ui"].ver)
          IN  /\ Len(sel) <= Len(NonSystemIds)
              /\ sel = SubSeq(NonSystemIds, Len(NonSystemIds) - Len(sel) + 1, Len(NonSystemIds))
              /\ Len(sel) <= count
              /\ Len(PendingIds) >= count => Len(sel) = count
              /\ Len(PendingIds) < count => Range(PendingIds) \subseteq Range(sel)]_vars

\* a cycle started by the button is under way with the most recent turn
\* only, two older pending turns left out
C35_Witness ==
    /\ cyc["ui"].pc = "llm" /\ cyc["ui"].ver = "mod"
    /\ MessageCount = 1 /\ Len(chat) = 3
    /\ cyc["ui"].ids = <<2>>
    /\ data.last_processed_message_id = NoMarker
    /\ ~IsSystem(chat, 1)

\* ---- deletion during a cycle (SpecDetach)
\* C36: when a cycle returns and reports events_created = n > 0, n events
\* of its batch are in the store getOpenVaultData returns for the chat,
\* also when the chat's data was deleted while the cycle awaited the model.
C36_ReportedEventsAreStored ==
    cyc["ui"].pc = "returned" /\ cyc["ui"].n > 0 =>
        Cardinality({i \in 1..Len(data.memories) :
                        data.memories[i].message_ids = cyc["ui"].ids}) >= cyc["ui"].n

\* ---- registration of the automatic handlers (SpecListeners)
\* C37: after any changes of enabled and automaticMode each of the three
\* automatic handlers is registered at most once, and registered exactly
\* when both settings are set; the update that finds them not both set
\* leaves the injection cleared.
C37_HandlersFollowSettings ==
    /\ [](\A e \in AutoEvents :
              /\ ctx.registered[e] <= 1
              /\ (ctx.registered[e] = 1) = (settings.enabled /\ settings.automaticMode))
    /\ [][settings' # settings /\ ~(settings'.enabled /\ settings'.automaticMode)
              => ctx'.prompt = ""]_vars

\* the handlers are out after a turn had been extracted automatically
\* (a memory is stored), the injection cleared
C37_Witness ==
    /\ \A e \in AutoEvents : ctx.registered[e] = 0
    /\ settings.enabled /\ ~settings.automaticMode
    /\ ctx.prompt = ""
    /\ data.memories # <<>>

\* ---- batches marked as extracted (SpecToggle)
\* C38: a batch index is added to extracted_batches only if the cycle of
\* that batch called the model and returned; a cycle that returned without
\* extracting, the extension being disabled, does not mark its batch.
C38_MarkedOnlyIfExtracted ==
    run.ver = "mod" /\ run.pc # "idle" =>
        \A i \in Range(C5_Added) :
            Range(Batch(run.ids, i, run.size)) \subseteq run.turns
====
